---- MODULE Spec2Model ----
(***************************************************************************)
(* Bank reconciliation: ingestion of bank statement rows into the          *)
(* bank_transactions table (python_services/bank_upload.py,                *)
(* python_services/process_bank_file.py,                                   *)
(* scripts/bank_transaction_processor.py) and the matching run of          *)
(* scripts/suggest_matches.py over bank_transactions, orders and           *)
(* transaction_links.                                                      *)
(*                                                                         *)
(* Amounts are integers in cents, dates are day numbers of January 2025.   *)
(* A SHA-256 digest is modelled by the tuple of the strings that are       *)
(* joined with "|" and hashed (the digest is taken to be injective on      *)
(* them).  SQL NULL / Python None is NULL for numbers and "" for text.     *)
(***************************************************************************)
EXTENDS Integers, Sequences, FiniteSets, TLC

\* ------------------------------------------------------------------ bounds
MaxBatch == 2        \* rows in one ingested file
MaxIngests == 2      \* ingestion runs in one behaviour
MaxBankRows == 3     \* bank transactions in the store before matching
MaxOrders == 2       \* orders in the store before matching
MaxRuns == 2         \* matching runs in one behaviour

NULL == -1

\* ------------------------------------------------------- generic helpers
Abs(x) == IF x < 0 THEN -x ELSE x

Range(s) == {s[k] : k \in DOMAIN s}

\* all orderings of a finite set: the row order of a SELECT without ORDER BY
Perms(S) == {s \in [1..Cardinality(S) -> S] : \A a \in S : \E k \in DOMAIN s : s[k] = a}

\* ------------------------------------------------ cell values of the files
\* python: float(str(credit_value).replace(',', '').replace('$', '').strip()),
\* in cents; NULL when float() raises ValueError
ParseCredit(raw) ==
    CASE raw = "150.00" -> 15000
      [] raw = "150"    -> 15000
      [] raw = "150.50" -> 15050
      [] raw = "4.00"   -> 400
      [] raw = "0"      -> 0
      [] OTHER          -> NULL

\* python: str(float) of the parsed credit amount
FloatStr(cents) ==
    CASE cents = 15000 -> "150.0"
      [] cents = 15050 -> "150.5"
      [] cents = 400   -> "4.0"
      [] OTHER         -> "0.0"

\* day number of a date cell; NULL when no format parses it
DayOf(raw) ==
    CASE raw = "2025-01-13" -> 13
      [] raw = "13.01.2025" -> 13
      [] raw = "2025-01-14" -> 14
      [] raw = "2025-01-16" -> 16
      [] OTHER              -> NULL

\* strftime('%Y-%m-%d %H:%M:%S') of a parsed date
DateStr(day) ==
    CASE day = 13 -> "2025-01-13 00:00:00"
      [] day = 14 -> "2025-01-14 00:00:00"
      [] day = 16 -> "2025-01-16 00:00:00"
      [] OTHER    -> ""

\* ASCII fold, upper case, single spaces
normalize_payer_sender(name) ==
    CASE name = "Juan Perez"  -> "JUAN PEREZ"
      [] name = "juan  perez" -> "JUAN PEREZ"
      [] OTHER                -> name

\* ASCII fold, upper case, all whitespace removed
normalize_description(desc) ==
    CASE desc = "Pago AB123456"  -> "PAGOAB123456"
      [] desc = "com ab 123456"  -> "COMAB123456"
      [] desc = "Transfer"       -> "TRANSFER"
      [] OTHER                   -> desc

\* str(description).upper() of bank_upload.extract_reference
Upper(desc) ==
    CASE desc = "Pago AB123456"  -> "PAGO AB123456"
      [] desc = "com ab 123456"  -> "COM AB 123456"
      [] desc = "Transfer"       -> "TRANSFER"
      [] OTHER                   -> desc

\* re.search(r'[A-Z]{2}\d{6}', description): first match or None
extract_reference(description) ==
    CASE description = "PAGOAB123456"  -> "AB123456"
      [] description = "PAGO AB123456" -> "AB123456"
      [] description = "COMAB123456"   -> "AB123456"
      [] OTHER                         -> ""

\* ------------------------------------------------------------- the store
VARIABLES
    bank_transactions,   \* committed table: transaction_hash -> record
    orders,              \* committed table: order_id -> record
    transaction_links,   \* committed table: sequence of link rows
    report,              \* result of the last ingestion run
    prev_report,         \* result of the ingestion run before it
    ingested,            \* history: [row, variant] of every row handed to INSERT
    ingests,             \* ingestion runs so far
    pc,                  \* position of run_suggestions
    tx_bank,             \* uncommitted UPDATEs of bank_transactions: hash -> SET fields
    tx_orders,           \* uncommitted UPDATEs of orders: order_id -> SET fields
    tx_links,            \* uncommitted INSERTs into transaction_links
    commission_txns,     \* suggest_transaction_links: fetched commission rows
    main_txns,           \* suggest_transaction_links: fetched main rows
    bank_txns,           \* run_suggestions: fetched unmatched bank rows
    order_rows,          \* run_suggestions: fetched unmatched orders ("orders" in the code)
    bank_i,              \* index of the outer loop in bank_txns
    cur_order,           \* order accepted for bank_txns[bank_i], its UPDATE still to run
    matched_bank_ids,
    matched_order_ids,
    links_count,
    suggestions_count,
    exit_status,         \* exit status of the last finished run (0: returned, 1: raised)
    fail_step,           \* pc at which the last run raised
    runs,                \* matching runs started
    start_unmatched_bank,    \* history: hashes 'unmatched' when the run started
    start_unmatched_orders,  \* history: order ids 'unmatched' when the run started
    quiet,               \* history: the previous run committed and nothing changed since
    upload,              \* the statement file handed to a pipeline and the response to it
    fetch,               \* the order batch handed to bulk_upsert_orders and the table before it
    call,                \* a function applied to arguments, with its return value
    sessions,            \* concurrent ingestion runs: each one's connection and counters
    rival                \* a second run_suggestions on its own connection

storeVars == <<bank_transactions, orders, transaction_links>>
ingestVars == <<report, prev_report, ingested, ingests>>
txVars == <<tx_bank, tx_orders, tx_links>>
runVars == <<pc, commission_txns, main_txns, bank_txns, order_rows, bank_i, cur_order,
             matched_bank_ids, matched_order_ids, links_count, suggestions_count,
             exit_status, fail_step, runs, start_unmatched_bank, start_unmatched_orders,
             quiet>>
concVars == <<sessions, rival>>
auxVars == <<upload, fetch, call, concVars>>
vars == <<storeVars, ingestVars, txVars, runVars, auxVars>>

\* the columns every pipeline inserts, with the defaults of a new record
NewTransaction(payer, day, cents, desc, ref) ==
    [payer_sender |-> payer, transaction_date |-> day, credit_amount |-> cents,
     description |-> desc, extracted_reference |-> ref,
     match_reference_flag |-> FALSE, match_name_score |-> 0,
     diff_days |-> NULL, diff_amount |-> NULL,
     reconciliation_status |-> "unmatched", order_id |-> NULL]

\* ----------------------------------------------------------- ingestion
Variants == {"bank_upload", "process_bank_file", "bank_transaction_processor"}

\* rows of a statement file after the header row: raw cell values
IngestRows ==
    { [date |-> "2025-01-13", payer |-> "JUAN PEREZ", credits |-> "150.00",
       balance |-> "1000.00", description |-> "Pago AB123456"],
      [date |-> "2025-01-13", payer |-> "Juan Perez", credits |-> "150.00",
       balance |-> "1000.00", description |-> "Pago AB123456"],
      [date |-> "2025-01-13", payer |-> "ACME", credits |-> "150.00",
       balance |-> "1000.00", description |-> "Transfer"],
      [date |-> "2025-01-14", payer |-> "JUAN PEREZ", credits |-> "4.00",
       balance |-> "1004.00", description |-> "com ab 123456"],
      [date |-> "2025-01-14", payer |-> "JUAN PEREZ", credits |-> "abc",
       balance |-> "1004.00", description |-> "Transfer"] }

\* bank_upload.create_transaction_hash: raw cells date|payer|credits|balance
create_transaction_hash_upload(row) ==
    <<row.date, row.payer, row.credits, row.balance>>

\* process_bank_file.create_transaction_hash:
\* balance|parsed date|float amount|normalized payer
create_transaction_hash(row_data) ==
    <<row_data.balance, row_data.date, row_data.credit_amount, row_data.payer_sender>>

\* bank_transaction_processor.create_hash: balance|raw date|float amount
create_hash(balance, date_value, amount) ==
    <<balance, date_value, amount>>

\* the fingerprint a pipeline gives a row
HashOf(variant, row) ==
    CASE variant = "bank_upload" -> create_transaction_hash_upload(row)
      [] variant = "process_bank_file" ->
            create_transaction_hash(
                [balance |-> row.balance, date |-> DateStr(DayOf(row.date)),
                 credit_amount |-> FloatStr(ParseCredit(row.credits)),
                 payer_sender |-> normalize_payer_sender(row.payer)])
      [] OTHER -> create_hash(row.balance, row.date, FloatStr(ParseCredit(row.credits)))

\* the row loop of process_bank_file / process_file: does the row yield a
\* transaction (credit parses and is positive, date parses)
RowAccepted(row) ==
    /\ ParseCredit(row.credits) # NULL
    /\ ParseCredit(row.credits) > 0
    /\ DayOf(row.date) # NULL

\* the transaction dict built for an accepted row
TransactionOf(variant, row) ==
    [transaction_hash |-> HashOf(variant, row),
     rec |-> NewTransaction(
                normalize_payer_sender(row.payer),
                DayOf(row.date),
                ParseCredit(row.credits),
                normalize_description(row.description),
                IF variant = "bank_upload"
                    THEN extract_reference(Upper(row.description))
                    ELSE extract_reference(normalize_description(row.description)))]

\* process_bank_file / process_file: the transactions list of a file
ProcessFile(variant, batch) ==
    LET ok == SelectSeq(batch, RowAccepted)
    IN  [k \in 1..Len(ok) |-> TransactionOf(variant, ok[k])]

\* INSERT ... ON CONFLICT (transaction_hash) DO UPDATE: the new row replaces
\* the stored one
InsertOrReplace(table, tx) ==
    [h \in DOMAIN table \cup {tx.transaction_hash} |->
        IF h = tx.transaction_hash THEN tx.rec ELSE table[h]]

\* INSERT ... ON CONFLICT (transaction_hash) DO NOTHING: the table after it
InsertOrSkip(table, tx) ==
    IF tx.transaction_hash \in DOMAIN table
        THEN table
        ELSE [h \in DOMAIN table \cup {tx.transaction_hash} |->
                IF h = tx.transaction_hash THEN tx.rec ELSE table[h]]

\* insert_transactions: the loop over the transactions, with its counters
RECURSIVE InsertLoop(_, _, _)
InsertLoop(txs, k, acc) ==
    IF k > Len(txs) THEN acc
    ELSE LET after == InsertOrSkip(acc.table, txs[k])
             rowcount == IF after = acc.table THEN 0 ELSE 1
         IN  InsertLoop(txs, k + 1,
                [table |-> after,
                 inserted |-> acc.inserted + rowcount,
                 duplicates |-> acc.duplicates + (1 - rowcount)])

\* the loop with every executed INSERT counted as inserted
RECURSIVE InsertLoopCountingAll(_, _, _)
InsertLoopCountingAll(txs, k, acc) ==
    IF k > Len(txs) THEN acc
    ELSE InsertLoopCountingAll(txs, k + 1,
            [table |-> InsertOrSkip(acc.table, txs[k]),
             inserted |-> acc.inserted + 1,
             duplicates |-> acc.duplicates])

insert_transactions_counting_all(table, txs) ==
    InsertLoopCountingAll(txs, 1, [table |-> table, inserted |-> 0, duplicates |-> 0])

insert_transactions(table, txs) ==
    InsertLoop(txs, 1, [table |-> table, inserted |-> 0, duplicates |-> 0])

Batches == UNION {[1..n -> IngestRows] : n \in 1..MaxBatch}

NoReport == [variant |-> "", batch |-> <<>>, processed |-> 0, inserted |-> 0, duplicates |-> 0]

\* one ingestion run: process the file, insert, commit, report the counts
Ingest(variant, batch) ==
    /\ ingests < MaxIngests
    /\ LET txs == ProcessFile(variant, batch)
           res == insert_transactions(bank_transactions, txs)
       IN  /\ bank_transactions' = res.table
           /\ report' = [variant |-> variant, batch |-> batch, processed |-> Len(txs),
                         inserted |-> res.inserted, duplicates |-> res.duplicates]
           /\ ingested' = ingested \cup
                  {[row |-> r, variant |-> variant] : r \in {x \in Range(batch) : RowAccepted(x)}}
    /\ prev_report' = report
    /\ ingests' = ingests + 1
    /\ UNCHANGED <<orders, transaction_links, txVars, runVars, auxVars>>

IngestUpload == \E batch \in Batches : Ingest("bank_upload", batch)
IngestProcessBankFile == \E batch \in Batches : Ingest("process_bank_file", batch)
IngestProcessor == \E batch \in Batches : Ingest("bank_transaction_processor", batch)

\* ------------------------------------------------- matching: comparisons
\* pairs of amounts (in cents) that differ by exactly 99 cents and whose
\* IEEE-754 double difference abs(float(a) - float(b)) is still <= 0.99;
\* for every other pair of the model that differs by 99 cents the double
\* difference is above 0.99 (150.99 - 150.0 = 0.9900000000000091)
FloatDiffWithin099 == {{99, 0}, {199, 100}, {10099, 10000}}

\* check_amount_match: abs(float(bank_amount) - float(order_amount)) <= 0.99,
\* False when a value is missing
check_amount_match(bank_amount, order_amount) ==
    /\ bank_amount # NULL
    /\ order_amount # NULL
    /\ LET diff == Abs(bank_amount - order_amount)
       IN  \/ diff < 99
           \/ diff = 99 /\ {bank_amount, order_amount} \in FloatDiffWithin099

\* check_date_match returning True when a date does not parse
check_date_match_missing_passes(bank_date, order_date) ==
    \/ bank_date = NULL
    \/ order_date = NULL
    \/ /\ -2 <= bank_date - order_date
       /\ bank_date - order_date <= 3

\* check_date_match: -days_before <= (bank_d - order_d).days <= days_after
check_date_match(bank_date, order_date) ==
    /\ bank_date # NULL
    /\ order_date # NULL
    /\ -2 <= bank_date - order_date
    /\ bank_date - order_date <= 3

\* str.strip().lower() of a reference
StripLower(ref) ==
    CASE ref = "AB123456" -> "ab123456"
      [] ref = "CD654321" -> "cd654321"
      [] OTHER            -> ref

check_reference_match_case_sensitive(bank_ref, order_ref) ==
    /\ bank_ref # ""
    /\ order_ref # ""
    /\ bank_ref = order_ref

\* check_reference_match: both present and equal after strip().lower()
check_reference_match(bank_ref, order_ref) ==
    /\ bank_ref # ""
    /\ order_ref # ""
    /\ StripLower(bank_ref) = StripLower(order_ref)

\* normalize_name: punctuation removed, lower case, single spaces
normalize_name(name) ==
    CASE name = "JUAN PEREZ" -> "juan perez"
      [] name = "J. PEREZ"   -> "j perez"
      [] name = "JUAN PEABC" -> "juan peabc"
      [] name = "XYKW"       -> "xykw"
      [] name = "JUAN PERAB" -> "juan perab"
      [] OTHER               -> name

\* fuzz.ratio of two normalized names (values of the library on these names)
ratio(a, b) ==
    CASE a = b -> 100
      [] {a, b} = {"juan perez", "j perez"}    -> 82
      [] {a, b} = {"juan perez", "juan peabc"} -> 70
      [] {a, b} = {"j perez", "juan peabc"}    -> 47
      [] {a, b} = {"juan perez", "juan perab"} -> 80
      [] {a, b} = {"j perez", "juan perab"}    -> 59
      [] {a, b} = {"juan peabc", "juan perab"} -> 90
      [] OTHER -> 0

\* check_name_match: 0 when a name is missing, else the ratio
check_name_match(bank_name, order_name) ==
    IF bank_name = "" \/ order_name = "" THEN 0
    ELSE ratio(normalize_name(bank_name), normalize_name(order_name))

\* ------------------------------------------------- matching: the tables
\* statement rows behind the bank transactions the matching runs start from
BankRows ==
    { [date |-> "2025-01-13", payer |-> "JUAN PEREZ", credits |-> "150.00",
       balance |-> "1000.00", description |-> "Pago AB123456"],
      [date |-> "2025-01-14", payer |-> "Juan Perez", credits |-> "150.50",
       balance |-> "1150.50", description |-> "Transfer"],
      [date |-> "2025-01-14", payer |-> "JUAN PEREZ", credits |-> "4.00",
       balance |-> "1154.50", description |-> "com ab 123456"] }

\* fetch_orders.transform_orders: a new order row with its defaults
NewOrder(name, day, cents, ref) ==
    [customer_name |-> name, order_date |-> day, amount_total_fee |-> cents,
     order_bank_reference |-> ref,
     match_reference_flag |-> FALSE, match_name_score |-> 0,
     reconciliation_status |-> "unmatched",
     diff_days |-> NULL, diff_amount |-> NULL, transaction_ids |-> <<>>]

\* orders the external fetch may have stored
OrderCatalog ==
    [o \in {101, 102, 103, 104} |->
        CASE o = 101 -> NewOrder("JUAN PEREZ", 14, 15050, "")
          [] o = 102 -> NewOrder("XYKW", 13, 15000, "ab123456")
          [] o = 103 -> NewOrder("J. PEREZ", 14, 450, "")
          [] OTHER   -> NewOrder("JUAN PEABC", 13, 15000, "")]

EmptyTable == <<>>

Put(f, k, v) == [x \in DOMAIN f \cup {k} |-> IF x = k THEN v ELSE f[x]]

\* UPDATE ... SET: the named columns are replaced, the others kept
Merge(rec, set) == [f \in DOMAIN rec |-> IF f \in DOMAIN set THEN set[f] ELSE rec[f]]

AllRows(table) == DOMAIN table

\* WHERE reconciliation_status = 'unmatched'
Unmatched(table) == {k \in DOMAIN table : table[k].reconciliation_status = "unmatched"}

\* ---------------------------------------- Pass A: suggest_transaction_links
\* existing_links left empty: the link table is not read
ExistingLinksNotRead(links) == {}

ExistingLinks(links) ==
    {<<links[k].primary_transaction_hash, links[k].linked_transaction_hash>> : k \in DOMAIN links}
    \cup {<<links[k].linked_transaction_hash, links[k].primary_transaction_hash>> : k \in DOMAIN links}

NoMatch == <<>>

\* the inner loop with "if total_score >= best_score": on equal scores the
\* main seen last wins
RECURSIVE BestMainLastWins(_, _, _, _, _)
BestMainLastWins(table, commission, mains, existing_links, acc) ==
    IF mains = <<>> THEN acc
    ELSE
      LET main == Head(mains)
          c == table[commission]
          m == table[main]
          ref_match == check_reference_match(c.extracted_reference, m.extracted_reference)
          name_score == check_name_match(c.payer_sender, m.payer_sender)
          total_score == IF ref_match THEN 100
                         ELSE IF name_score >= 80 THEN name_score ELSE 0
          skip == \/ <<main, commission>> \in existing_links
                  \/ m.transaction_date = NULL
                  \/ c.transaction_date = NULL
                  \/ Abs(c.transaction_date - m.transaction_date) > 5
      IN  BestMainLastWins(table, commission, Tail(mains), existing_links,
                   IF ~skip /\ total_score > 0 /\ total_score >= acc.best_score
                       THEN [best_match |-> main, best_score |-> total_score]
                       ELSE acc)

\* the inner loop over main_txns for one commission: best_match, best_score
RECURSIVE BestMain(_, _, _, _, _)
BestMain(table, commission, mains, existing_links, acc) ==
    IF mains = <<>> THEN acc
    ELSE
      LET main == Head(mains)
          c == table[commission]
          m == table[main]
          ref_match == check_reference_match(c.extracted_reference, m.extracted_reference)
          name_score == check_name_match(c.payer_sender, m.payer_sender)
          total_score == IF ref_match THEN 100
                         ELSE IF name_score >= 80 THEN name_score ELSE 0
          skip == \/ <<main, commission>> \in existing_links
                  \/ m.transaction_date = NULL
                  \/ c.transaction_date = NULL
                  \/ Abs(c.transaction_date - m.transaction_date) > 5
      IN  BestMain(table, commission, Tail(mains), existing_links,
                   IF ~skip /\ total_score > acc.best_score
                       THEN [best_match |-> main, best_score |-> total_score]
                       ELSE acc)

\* the outer loop over commission_txns: the link rows it inserts
RECURSIVE LinkLoop(_, _, _, _, _)
LinkLoop(table, comms, mains, existing_links, acc) ==
    IF comms = <<>> THEN acc
    ELSE
      LET commission == Head(comms)
          best == BestMain(table, commission, mains, existing_links,
                           [best_match |-> NoMatch, best_score |-> 0])
      IN  IF commission \in acc.linked_commissions
            THEN LinkLoop(table, Tail(comms), mains, existing_links, acc)
          ELSE IF best.best_match # NoMatch /\ best.best_score >= 70
            THEN LinkLoop(table, Tail(comms), mains, existing_links,
                    [inserted |-> Append(acc.inserted,
                        [primary_transaction_hash |-> best.best_match,
                         linked_transaction_hash |-> commission,
                         link_type |-> "commission", status |-> "suggested"]),
                     linked_commissions |-> acc.linked_commissions \cup {commission},
                     links_count |-> acc.links_count + 1])
          ELSE LinkLoop(table, Tail(comms), mains, existing_links, acc)

IsCommission(rec) == rec.credit_amount >= 350 /\ rec.credit_amount <= 450
\* the main payments selected from 10.00 upwards
IsMainFromTen(rec) == rec.credit_amount >= 1000
IsMain(rec) == rec.credit_amount > 1000

\* ------------------------------------------------ run_suggestions: steps
Active == pc \in {"passA", "select", "scan", "order_update"}

\* get_connection: a run starts on a fresh connection
StartRun ==
    /\ ~Active
    /\ runs < MaxRuns
    /\ runs' = runs + 1
    /\ pc' = "passA"
    /\ quiet' = (pc = "done")
    /\ start_unmatched_bank' =
          {h \in DOMAIN bank_transactions :
              bank_transactions[h].reconciliation_status = "unmatched"}
    /\ start_unmatched_orders' =
          {o \in DOMAIN orders : orders[o].reconciliation_status = "unmatched"}
    /\ commission_txns' = <<>> /\ main_txns' = <<>>
    /\ bank_txns' = <<>> /\ order_rows' = <<>>
    /\ bank_i' = 1 /\ cur_order' = NULL
    /\ matched_bank_ids' = {} /\ matched_order_ids' = {}
    /\ links_count' = 0 /\ suggestions_count' = 0
    /\ exit_status' = 0 /\ fail_step' = ""
    /\ tx_bank' = EmptyTable /\ tx_orders' = EmptyTable /\ tx_links' = <<>>
    /\ UNCHANGED <<storeVars, ingestVars, auxVars>>

\* suggest_transaction_links: the three SELECTs, the loops and the INSERTs
PassA ==
    /\ pc = "passA"
    /\ \E comms \in Perms({h \in Unmatched(bank_transactions) : IsCommission(bank_transactions[h])}),
          mains \in Perms({h \in Unmatched(bank_transactions) : IsMain(bank_transactions[h])}) :
          LET res == LinkLoop(bank_transactions, comms, mains,
                              ExistingLinks(transaction_links),
                              [inserted |-> <<>>, linked_commissions |-> {}, links_count |-> 0])
          IN  /\ commission_txns' = comms
              /\ main_txns' = mains
              /\ tx_links' = res.inserted
              /\ links_count' = res.links_count
    /\ pc' = "select"
    /\ UNCHANGED <<storeVars, ingestVars, auxVars, tx_bank, tx_orders, bank_txns, order_rows, bank_i,
                   cur_order, matched_bank_ids, matched_order_ids, suggestions_count,
                   exit_status, fail_step, runs, start_unmatched_bank,
                   start_unmatched_orders, quiet>>

\* hashes that appear in a link row
Linked(links) ==
    {links[k].primary_transaction_hash : k \in DOMAIN links}
    \cup {links[k].linked_transaction_hash : k \in DOMAIN links}

\* the SELECTs with the transactions Pass A has just linked left out
SelectCandidatesExcludingLinked ==
    /\ pc = "select"
    /\ bank_txns' \in Perms(Unmatched(bank_transactions) \ Linked(tx_links))
    /\ order_rows' \in Perms(Unmatched(orders))
    /\ pc' = "scan"
    /\ UNCHANGED <<storeVars, ingestVars, auxVars, txVars, commission_txns, main_txns, bank_i,
                   cur_order, matched_bank_ids, matched_order_ids, links_count,
                   suggestions_count, exit_status, fail_step, runs, start_unmatched_bank,
                   start_unmatched_orders, quiet>>

\* the two SELECT ... WHERE reconciliation_status = 'unmatched' of run_suggestions
SelectCandidates ==
    /\ pc = "select"
    /\ bank_txns' \in Perms(Unmatched(bank_transactions))
    /\ order_rows' \in Perms(Unmatched(orders))
    /\ pc' = "scan"
    /\ UNCHANGED <<storeVars, ingestVars, auxVars, txVars, commission_txns, main_txns, bank_i,
                   cur_order, matched_bank_ids, matched_order_ids, links_count,
                   suggestions_count, exit_status, fail_step, runs, start_unmatched_bank,
                   start_unmatched_orders, quiet>>

\* the body of the inner loop up to the decision: is this order accepted
Accepts(bank, order) ==
    /\ check_amount_match(bank.credit_amount, order.amount_total_fee)
    /\ check_date_match(bank.transaction_date, order.order_date)
    /\ \/ check_reference_match(bank.extracted_reference, order.order_bank_reference)
       \/ check_name_match(bank.payer_sender, order.customer_name) > 70

\* the inner loop without its "if order['order_id'] in matched_order_ids" test
RECURSIVE ScanOrdersIgnoringClaims(_, _, _)
ScanOrdersIgnoringClaims(bank, rows, claimed) ==
    IF rows = <<>> THEN NULL
    ELSE IF Accepts(bank, orders[Head(rows)])
        THEN Head(rows)
        ELSE ScanOrdersIgnoringClaims(bank, Tail(rows), claimed)

\* the inner loop "for order in orders": the first order that is accepted
RECURSIVE ScanOrders(_, _, _)
ScanOrders(bank, rows, claimed) ==
    IF rows = <<>> THEN NULL
    ELSE IF Head(rows) \notin claimed /\ Accepts(bank, orders[Head(rows)])
        THEN Head(rows)
        ELSE ScanOrders(bank, Tail(rows), claimed)

\* the SET clause with the signed differences bank - order
MatchFieldsSigned(bank, order) ==
    [reconciliation_status |-> "suggested_match",
     match_reference_flag |->
        check_reference_match(bank.extracted_reference, order.order_bank_reference),
     match_name_score |-> check_name_match(bank.payer_sender, order.customer_name),
     diff_days |-> bank.transaction_date - order.order_date,
     diff_amount |-> bank.credit_amount - order.amount_total_fee]

\* the SET clause of the two UPDATEs of an accepted pair
MatchFields(bank, order) ==
    [reconciliation_status |-> "suggested_match",
     match_reference_flag |->
        check_reference_match(bank.extracted_reference, order.order_bank_reference),
     match_name_score |-> check_name_match(bank.payer_sender, order.customer_name),
     diff_days |-> Abs(bank.transaction_date - order.order_date),
     diff_amount |-> Abs(bank.credit_amount - order.amount_total_fee)]

\* one iteration of "for bank in bank_txns" up to and including UPDATE bank_transactions
ScanBank ==
    /\ pc = "scan"
    /\ bank_i <= Len(bank_txns)
    /\ LET h == bank_txns[bank_i]
           bank == bank_transactions[h]
           o == IF h \in matched_bank_ids THEN NULL
                ELSE ScanOrders(bank, order_rows, matched_order_ids)
       IN  IF o = NULL
             THEN /\ bank_i' = bank_i + 1
                  /\ UNCHANGED <<pc, cur_order, tx_bank>>
             ELSE /\ tx_bank' = Put(tx_bank, h,
                        MatchFields(bank, orders[o]) @@ [order_id |-> o])
                  /\ cur_order' = o
                  /\ pc' = "order_update"
                  /\ UNCHANGED bank_i
    /\ UNCHANGED <<storeVars, ingestVars, auxVars, tx_orders, tx_links, commission_txns, main_txns,
                   bank_txns, order_rows, matched_bank_ids, matched_order_ids, links_count,
                   suggestions_count, exit_status, fail_step, runs, start_unmatched_bank,
                   start_unmatched_orders, quiet>>

\* UPDATE orders of the accepted pair, then the claim marks and the break
UpdateOrder ==
    /\ pc = "order_update"
    /\ LET h == bank_txns[bank_i]
       IN  /\ tx_orders' = Put(tx_orders, cur_order,
                  MatchFields(bank_transactions[h], orders[cur_order])
                      @@ [transaction_ids |-> <<h>>])
           /\ matched_bank_ids' = matched_bank_ids \cup {h}
           /\ matched_order_ids' = matched_order_ids \cup {cur_order}
    /\ suggestions_count' = suggestions_count + 1
    /\ bank_i' = bank_i + 1
    /\ cur_order' = NULL
    /\ pc' = "scan"
    /\ UNCHANGED <<storeVars, ingestVars, auxVars, tx_bank, tx_links, commission_txns, main_txns,
                   bank_txns, order_rows, links_count, exit_status, fail_step, runs,
                   start_unmatched_bank, start_unmatched_orders, quiet>>

\* what COMMIT makes of a table and the UPDATEs of the transaction
ApplyUpdates(table, updates) ==
    [k \in DOMAIN table |->
        IF k \in DOMAIN updates THEN Merge(table[k], updates[k]) ELSE table[k]]

\* conn.commit() and return suggestions_count
Commit ==
    /\ pc = "scan"
    /\ bank_i > Len(bank_txns)
    /\ bank_transactions' = ApplyUpdates(bank_transactions, tx_bank)
    /\ orders' = ApplyUpdates(orders, tx_orders)
    /\ transaction_links' = transaction_links \o tx_links
    /\ tx_bank' = EmptyTable /\ tx_orders' = EmptyTable /\ tx_links' = <<>>
    /\ pc' = "done"
    /\ exit_status' = 0
    /\ UNCHANGED <<ingestVars, auxVars, commission_txns, main_txns, bank_txns, order_rows, bank_i,
                   cur_order, matched_bank_ids, matched_order_ids, links_count,
                   suggestions_count, fail_step, runs, start_unmatched_bank,
                   start_unmatched_orders, quiet>>

\* the except branch after a Pass A that had committed its own inserts
RaiseKeepingLinks ==
    /\ Active
    /\ transaction_links' = transaction_links \o tx_links
    /\ tx_bank' = EmptyTable /\ tx_orders' = EmptyTable /\ tx_links' = <<>>
    /\ fail_step' = pc
    /\ pc' = "failed"
    /\ exit_status' = 1
    /\ UNCHANGED <<bank_transactions, orders, ingestVars, auxVars, commission_txns,
                   main_txns, bank_txns, order_rows, bank_i, cur_order,
                   matched_bank_ids, matched_order_ids, links_count,
                   suggestions_count, runs, start_unmatched_bank,
                   start_unmatched_orders, quiet>>

\* the except branch with the store as it is left: partial writes are kept
RaiseKeepingWrites ==
    /\ Active
    /\ bank_transactions' = ApplyUpdates(bank_transactions, tx_bank)
    /\ orders' = ApplyUpdates(orders, tx_orders)
    /\ transaction_links' = transaction_links \o tx_links
    /\ tx_bank' = EmptyTable /\ tx_orders' = EmptyTable /\ tx_links' = <<>>
    /\ fail_step' = pc
    /\ pc' = "failed"
    /\ exit_status' = 1
    /\ UNCHANGED <<ingestVars, auxVars, commission_txns, main_txns, bank_txns, order_rows, bank_i,
                   cur_order, matched_bank_ids, matched_order_ids, links_count,
                   suggestions_count, runs, start_unmatched_bank,
                   start_unmatched_orders, quiet>>

\* the except branch without its "raise": the error is swallowed
RaiseSilently ==
    /\ Active
    /\ tx_bank' = EmptyTable /\ tx_orders' = EmptyTable /\ tx_links' = <<>>
    /\ fail_step' = pc
    /\ pc' = "failed"
    /\ exit_status' = 0
    /\ UNCHANGED <<storeVars, ingestVars, auxVars, commission_txns, main_txns, bank_txns, order_rows,
                   bank_i, cur_order, matched_bank_ids, matched_order_ids, links_count,
                   suggestions_count, runs, start_unmatched_bank,
                   start_unmatched_orders, quiet>>

\* a statement of the run raises: except -> conn.rollback(), raise
Raise ==
    /\ Active
    /\ tx_bank' = EmptyTable /\ tx_orders' = EmptyTable /\ tx_links' = <<>>
    /\ fail_step' = pc
    /\ pc' = "failed"
    /\ exit_status' = 1
    /\ UNCHANGED <<storeVars, ingestVars, auxVars, commission_txns, main_txns, bank_txns, order_rows,
                   bank_i, cur_order, matched_bank_ids, matched_order_ids, links_count,
                   suggestions_count, runs, start_unmatched_bank,
                   start_unmatched_orders, quiet>>

\* ----------------------------------------------------- external reviewer
\* the review step outside the engine, between runs: a suggested pair is
\* confirmed or rejected on both sides
Review ==
    /\ ~Active
    /\ \E h \in DOMAIN bank_transactions, verdict \in {"confirmed", "rejected"} :
          LET o == bank_transactions[h].order_id
          IN  /\ bank_transactions[h].reconciliation_status = "suggested_match"
              /\ o \in DOMAIN orders
              /\ orders[o].reconciliation_status = "suggested_match"
              /\ bank_transactions' =
                    [bank_transactions EXCEPT ![h].reconciliation_status = verdict]
              /\ orders' = [orders EXCEPT ![o].reconciliation_status = verdict]
    /\ pc' = "idle"
    /\ UNCHANGED <<transaction_links, ingestVars, auxVars, txVars, commission_txns, main_txns,
                   bank_txns, order_rows, bank_i, cur_order, matched_bank_ids,
                   matched_order_ids, links_count, suggestions_count, exit_status,
                   fail_step, runs, start_unmatched_bank, start_unmatched_orders, quiet>>

\* a reviewer settles an unmatched bank transaction by hand while a run is
\* between its SELECTs and its writes (the row is not locked by the run)
ExternalBank ==
    /\ pc \in {"scan", "order_update"}
    /\ \E h \in Unmatched(bank_transactions) \ DOMAIN tx_bank :
          bank_transactions' =
              [bank_transactions EXCEPT ![h].reconciliation_status = "confirmed"]
    /\ UNCHANGED <<orders, transaction_links, ingestVars, auxVars, txVars, runVars>>

\* the same for an order
ExternalOrder ==
    /\ pc \in {"scan", "order_update"}
    /\ \E o \in Unmatched(orders) \ DOMAIN tx_orders :
          orders' = [orders EXCEPT ![o].reconciliation_status = "confirmed"]
    /\ UNCHANGED <<bank_transactions, transaction_links, ingestVars, auxVars, txVars, runVars>>

\* -------------------------------------------------------- specifications
IdleRun ==
    /\ pc = "idle"
    /\ tx_bank = EmptyTable /\ tx_orders = EmptyTable /\ tx_links = <<>>
    /\ commission_txns = <<>> /\ main_txns = <<>>
    /\ bank_txns = <<>> /\ order_rows = <<>>
    /\ bank_i = 1 /\ cur_order = NULL
    /\ matched_bank_ids = {} /\ matched_order_ids = {}
    /\ links_count = 0 /\ suggestions_count = 0
    /\ exit_status = 0 /\ fail_step = ""
    /\ runs = 0
    /\ start_unmatched_bank = {} /\ start_unmatched_orders = {}
    /\ quiet = FALSE

NoIngestion ==
    /\ report = NoReport /\ prev_report = NoReport
    /\ ingested = {} /\ ingests = 0

\* no file uploaded, no order batch fetched, no function applied yet
NoUpload == [variant |-> ""]
NoFetch == [records |-> {}]
NoCall == [fn |-> "", args |-> <<>>, result |-> <<>>]

\* no concurrent ingestion run and no second matching run
NoSessions == <<>>
NoRival == [pc |-> "idle", commission_txns |-> <<>>, main_txns |-> <<>>,
            bank_txns |-> <<>>, order_rows |-> <<>>, tx_links |-> <<>>]

NoConcurrency ==
    /\ sessions = NoSessions
    /\ rival = NoRival

NoCalls ==
    /\ upload = NoUpload
    /\ fetch = NoFetch
    /\ call = NoCall
    /\ NoConcurrency

\* the table process_bank_file leaves after ingesting a set of rows
TableOf(rows) ==
    [h \in {HashOf("process_bank_file", r) : r \in rows} |->
        TransactionOf("process_bank_file",
            CHOOSE r \in rows : HashOf("process_bank_file", r) = h).rec]

\* matching: a store of freshly ingested transactions and fetched orders
Init ==
    /\ \E rows \in SUBSET BankRows :
          /\ Cardinality(rows) <= MaxBankRows
          /\ bank_transactions = TableOf(rows)
    /\ \E ids \in SUBSET DOMAIN OrderCatalog :
          /\ Cardinality(ids) <= MaxOrders
          /\ orders = [o \in ids |-> OrderCatalog[o]]
    /\ transaction_links = <<>>
    /\ NoIngestion
    /\ IdleRun
    /\ NoCalls

Next ==
    \/ StartRun
    \/ PassA
    \/ SelectCandidates
    \/ ScanBank
    \/ UpdateOrder
    \/ Commit
    \/ Raise
    \/ Review

Spec == Init /\ [][Next]_vars

\* matching with a reviewer acting while a run is in progress
NextExt ==
    \/ Next
    \/ ExternalBank
    \/ ExternalOrder

SpecExt == Init /\ [][NextExt]_vars

\* ingestion into an empty store
InitIngest ==
    /\ bank_transactions = EmptyTable
    /\ orders = EmptyTable
    /\ transaction_links = <<>>
    /\ NoIngestion
    /\ IdleRun
    /\ NoCalls

NextIngest ==
    \/ IngestUpload
    \/ IngestProcessBankFile
    \/ IngestProcessor

SpecIngest == InitIngest /\ [][NextIngest]_vars

\* ---------------------------------- the tolerance checks applied to a pair
\* amounts (cents) and days handed to the checks: each boundary from both
\* sides, and a missing value
TolAmounts == {NULL, 0, 99, 100, 199, 200, 10000, 10099, 10100, 15000, 15099, 15100}
TolBankDays == {NULL} \cup 10..17
TolOrderDays == {NULL, 13, 14}

EmptyStore ==
    /\ bank_transactions = EmptyTable
    /\ orders = EmptyTable
    /\ transaction_links = <<>>

InitTol ==
    /\ EmptyStore
    /\ NoIngestion
    /\ IdleRun
    /\ upload = NoUpload
    /\ fetch = NoFetch
    /\ NoConcurrency
    /\ \E ba \in TolAmounts, oa \in TolAmounts, bd \in TolBankDays, od \in TolOrderDays :
          call = [fn |-> "",
                  args |-> [bank_amount |-> ba, order_amount |-> oa,
                            bank_date |-> bd, order_date |-> od],
                  result |-> <<>>]

\* amount_match = check_amount_match(bank['credit_amount'], order['amount_total_fee'])
CallCheckAmountMatch ==
    /\ call.fn = ""
    /\ call' = [fn |-> "check_amount_match", args |-> call.args,
                result |-> check_amount_match(call.args.bank_amount, call.args.order_amount)]
    /\ UNCHANGED <<storeVars, ingestVars, txVars, runVars, upload, fetch, concVars>>

\* date_match = check_date_match(bank['transaction_date'], order['order_date'])
CallCheckDateMatch ==
    /\ call.fn = ""
    /\ call' = [fn |-> "check_date_match", args |-> call.args,
                result |-> check_date_match(call.args.bank_date, call.args.order_date)]
    /\ UNCHANGED <<storeVars, ingestVars, txVars, runVars, upload, fetch, concVars>>

NextTol ==
    \/ CallCheckAmountMatch
    \/ CallCheckDateMatch

SpecTol == InitTol /\ [][NextTol]_vars

\* ------------------------------------------- a statement file, end to end
\* the concepts a header row can name
Columns == {"date", "payer", "description", "credits", "balance", "debit"}

\* header rows: every column resolved, or some columns not resolved
FileColumns ==
    {Columns \ gone :
        gone \in {{}, {"debit"}, {"debit", "balance"}, {"debit", "payer"},
                  {"debit", "description"}, {"debit", "date"}, {"debit", "credits"}}}

\* data rows of a file: the text of each cell, "" for an empty cell
FileRow(date, payer, credits, balance, description, debit) ==
    [date |-> date, payer |-> payer, credits |-> credits, balance |-> balance,
     description |-> description, debit |-> debit]

FileRows ==
    { FileRow("2025-01-13", "JUAN PEREZ", "150.00", "1000.00", "Pago AB123456", ""),
      FileRow("2025-01-14", "JUAN PEREZ", "4.00", "1004.00", "com ab 123456", "0.00"),
      FileRow("2025-01-14", "ACME", "150.50", "954.50", "Transfer", "50.00"),
      FileRow("2025-01-16", "ACME", "150.00", "-130.06", "Transfer", "1,234.56"),
      FileRow("2025-01-16", "ACME", "", "1104.50", "Transfer", ""),
      FileRow("2025-01-16", "ACME", "abc", "1104.50", "Transfer", ""),
      FileRow("2025-01-16", "ACME", "0", "1104.50", "Transfer", ""),
      FileRow("n/a", "ACME", "150.50", "1255.00", "Transfer", "") }

MaxFileRows == 2     \* data rows in one file

Files ==
    {[columns |-> c, rows |-> rs] :
        c \in FileColumns, rs \in UNION {[1..n -> FileRows] : n \in 1..MaxFileRows}}

\* row.get(col): the cell under a resolved column, NaN ("") otherwise
Cells(file, row) ==
    [c \in Columns |-> IF c \in file.columns THEN row[c] ELSE ""]

\* pd.to_numeric(cell, errors='coerce') in cents, NULL for NaN
ToNumeric(cell) ==
    CASE cell = "0"     -> 0
      [] cell = "0.00"  -> 0
      [] cell = "50.00" -> 5000
      [] OTHER          -> NULL

\* pd.read_csv without dtype: a column whose cells are all empty or numeric
\* is read as float64, any other column as str objects
DebitColumnIsFloat(file) ==
    \A k \in DOMAIN file.rows :
        file.rows[k].debit = "" \/ ToNumeric(file.rows[k].debit) # NULL

\* the debit filter: does the row stay in the DataFrame
PassesDebitFilter(variant, file, row) ==
    \/ "debit" \notin file.columns
    \/ IF variant = "bank_upload"
         \* dtype=str; to_numeric(errors='coerce').fillna(0) == 0
         THEN (IF ToNumeric(row.debit) = NULL THEN 0 ELSE ToNumeric(row.debit)) = 0
         \* isna(cell) | cell == '' | cell == 0
         ELSE \/ row.debit = ""
              \/ DebitColumnIsFloat(file) /\ ToNumeric(row.debit) = 0

\* the rows the row loop iterates over, as the cells it reads
KeptRows(variant, file) ==
    LET kept == SelectSeq(file.rows, LAMBDA r : PassesDebitFilter(variant, file, r))
    IN  [k \in 1..Len(kept) |-> Cells(file, kept[k])]

\* the columns a pipeline refuses to work without
RequiredColumns(variant) ==
    CASE variant = "bank_upload" -> {"date", "payer", "description", "credits"}
      [] variant = "process_bank_file" -> {"date", "credits", "balance"}
      [] OTHER -> {"date", "payer", "description", "credits", "balance"}

\* the diagnostic the row loop appends for a row, "" when it appends none
RowError(variant, row) ==
    CASE variant = "bank_upload" ->
            IF row.credits = "" THEN ""
            ELSE IF ParseCredit(row.credits) = NULL THEN "Invalid credit amount"
            ELSE IF ParseCredit(row.credits) <= 0 THEN ""
            ELSE IF DayOf(row.date) = NULL THEN "Could not parse date"
            ELSE ""
      [] variant = "process_bank_file" -> ""
      [] OTHER ->
            IF ParseCredit(row.credits) = NULL \/ ParseCredit(row.credits) <= 0 THEN ""
            ELSE IF DayOf(row.date) = NULL THEN "Could not parse date"
            ELSE ""

\* the errors list of the row loop
RowErrors(variant, rows) ==
    LET bad == SelectSeq(rows, LAMBDA r : RowError(variant, r) # "")
    IN  [k \in 1..Len(bad) |-> RowError(variant, bad[k])]

\* process_bank_file.process_file: skipped_count
SkippedCount(rows) == Len(SelectSeq(rows, LAMBDA r : ~RowAccepted(r)))

MaxShownErrors == 10

\* errors[:10]
Shown(errors) ==
    SubSeq(errors, 1, IF Len(errors) < MaxShownErrors THEN Len(errors) ELSE MaxShownErrors)

\* insert_transactions of bank_upload and process_bank_file when the INSERT
\* of txs[fail_at] raises (fail_at outside 1..Len(txs): none raises).  The
\* statements before
\* it are counted by their rowcount; it and every later statement raise, as
\* the transaction is aborted, and each is counted as skipped; conn.commit()
\* then ends the aborted transaction and nothing of the batch is stored
insert_transactions_row_by_row(table, txs, fail_at) ==
    IF fail_at \notin 1..Len(txs) THEN insert_transactions(table, txs)
    ELSE LET done == insert_transactions(table, SubSeq(txs, 1, fail_at - 1))
         IN  [table |-> table,
              inserted |-> done.inserted,
              duplicates |-> done.duplicates + (Len(txs) - fail_at + 1)]

\* insert_transactions of bank_transaction_processor: one execute_values,
\* inserted = cur.rowcount; an exception returns 0 and a "Database error"
insert_transactions_execute_values(table, txs, fail_at) ==
    IF fail_at \notin 1..Len(txs) THEN insert_transactions(table, txs)
    ELSE [table |-> table, inserted |-> 0, duplicates |-> 0]

\* the JSON a pipeline answers with (NULL: the field is not in the answer)
Response(status, processed, inserted, duplicates, error_count, errors) ==
    [status |-> status, processed |-> processed, inserted |-> inserted,
     duplicates |-> duplicates, error_count |-> error_count, errors |-> errors]

\* upload_bank_file / main: the whole handler on one file
HandleFile(variant, file, fail_at, table) ==
    LET rows == KeptRows(variant, file)
        txs == ProcessFile(variant, rows)
        errors == RowErrors(variant, rows)
    IN  IF RequiredColumns(variant) \ file.columns # {}
          THEN [table |-> table, executed |-> 0, diagnostics |-> <<>>,
                response |-> Response("missing_columns", 0, 0, 0, NULL, <<>>)]
        ELSE IF variant = "bank_upload"
          THEN IF txs = <<>>
                 THEN [table |-> table, executed |-> 0, diagnostics |-> errors,
                       response |-> Response("no_transactions", 0, 0, 0, NULL, Shown(errors))]
                 ELSE LET res == insert_transactions_row_by_row(table, txs, fail_at)
                      IN  [table |-> res.table, executed |-> Len(txs), diagnostics |-> errors,
                           response |-> Response("ok", Len(txs), res.inserted, res.duplicates,
                                                 Len(errors), Shown(errors))]
        ELSE IF variant = "process_bank_file"
          THEN IF txs = <<>>
                 THEN [table |-> table, executed |-> 0, diagnostics |-> <<>>,
                       response |-> Response("ok", 0, 0, 0, NULL, <<>>)]
                 ELSE LET res == insert_transactions_row_by_row(table, txs, fail_at)
                      IN  [table |-> res.table, executed |-> Len(txs), diagnostics |-> <<>>,
                           response |-> Response("ok", Len(txs), res.inserted, res.duplicates,
                                                 SkippedCount(rows), <<>>)]
        ELSE IF txs = <<>> /\ errors # <<>>
          THEN [table |-> table, executed |-> 0, diagnostics |-> errors,
                response |-> Response("no_transactions", 0, 0, 0, NULL, errors)]
        ELSE LET res == insert_transactions_execute_values(table, txs, fail_at)
                 all_errors == IF fail_at = 0 THEN errors
                               ELSE Append(errors, "Database error")
             IN  [table |-> res.table, executed |-> Len(txs), diagnostics |-> all_errors,
                  response |-> Response(IF fail_at = 0 THEN "ok" ELSE "db_error",
                                        Len(txs), res.inserted, Len(txs) - res.inserted,
                                        NULL, all_errors)]

\* one file handed to one pipeline
Handle(variant) ==
    /\ upload.variant = ""
    /\ \E file \in Files, fail_at \in 0..MaxFileRows :
          LET out == HandleFile(variant, file, fail_at, bank_transactions)
          IN  /\ fail_at <= out.executed
              /\ bank_transactions' = out.table
              /\ upload' = [variant |-> variant, file |-> file, fail_at |-> fail_at,
                            response |-> out.response, diagnostics |-> out.diagnostics,
                            before |-> bank_transactions]
    /\ UNCHANGED <<orders, transaction_links, ingestVars, txVars, runVars, fetch, call, concVars>>

upload_bank_file == Handle("bank_upload")
process_bank_file_main == Handle("process_bank_file")
bank_transaction_processor_main == Handle("bank_transaction_processor")

Statuses == {"unmatched", "suggested_match", "confirmed", "rejected"}

\* the row behind the record a store may already hold
StoredRow ==
    FileRow("2025-01-13", "JUAN PEREZ", "150.00", "1000.00", "Pago AB123456", "")

\* the store before the file arrives: empty, or StoredRow ingested earlier by
\* one of the pipelines and since then left alone, matched to order 102 by a
\* run, or matched and reviewed
InitFile ==
    /\ \/ EmptyStore
       \/ \E variant \in Variants, status \in Statuses :
             LET tx == TransactionOf(variant, StoredRow)
                 h == tx.transaction_hash
                 order == OrderCatalog[102]
                 set == [MatchFields(tx.rec, order) EXCEPT !.reconciliation_status = status]
             IN  /\ bank_transactions =
                       (h :> IF status = "unmatched" THEN tx.rec
                             ELSE Merge(tx.rec, set @@ [order_id |-> 102]))
                 /\ orders =
                       (102 :> IF status = "unmatched" THEN order
                               ELSE Merge(order, set @@ [transaction_ids |-> <<h>>]))
                 /\ transaction_links = <<>>
    /\ NoIngestion
    /\ IdleRun
    /\ NoCalls

NextFile ==
    \/ upload_bank_file
    \/ process_bank_file_main
    \/ bank_transaction_processor_main

SpecFile == InitFile /\ [][NextFile]_vars

\* ------------------------------------------------- fetch_orders: the upsert
\* the records transform_orders builds from the API answer: orders already
\* in the store with the same or with changed data, and a new order
FetchedOrders ==
    { [order_id |-> 101, rec |-> NewOrder("JUAN PEREZ", 14, 15150, "")],
      [order_id |-> 102, rec |-> NewOrder("XYKW", 13, 15000, "ab123456")],
      [order_id |-> 102, rec |-> NewOrder("J. PEREZ", 16, 450, "cd654321")],
      [order_id |-> 104, rec |-> NewOrder("JUAN PEABC", 14, 15000, "ab123456")],
      [order_id |-> 105, rec |-> NewOrder("JUAN PEREZ", 16, 15050, "")] }

MaxFetched == 2      \* records in one fetched batch

\* df.to_dict('records'): batches of records with distinct order ids
FetchedBatches ==
    {b \in SUBSET FetchedOrders :
        /\ b # {}
        /\ Cardinality(b) <= MaxFetched
        /\ \A x, y \in b : x.order_id = y.order_id => x = y}

\* ON CONFLICT (order_id) DO UPDATE SET ...: the columns taken from EXCLUDED
UpsertSet(rec) ==
    [order_bank_reference |-> rec.order_bank_reference,
     amount_total_fee |-> rec.amount_total_fee,
     order_date |-> rec.order_date,
     customer_name |-> rec.customer_name]

\* the statement without its WHERE orders.reconciliation_status = 'unmatched'
UpsertRowUnconditional(table, r) ==
    IF r.order_id \notin DOMAIN table THEN r.rec
    ELSE Merge(table[r.order_id], UpsertSet(r.rec))

\* the row of order r.order_id after the statement ran for record r
UpsertRow(table, r) ==
    IF r.order_id \notin DOMAIN table THEN r.rec
    ELSE IF table[r.order_id].reconciliation_status = "unmatched"
        THEN Merge(table[r.order_id], UpsertSet(r.rec))
        ELSE table[r.order_id]

\* conn.execute(upsert_sql, records): the table after the whole batch
UpsertAll(table, records) ==
    [o \in DOMAIN table \cup {r.order_id : r \in records} |->
        IF \E r \in records : r.order_id = o
            THEN UpsertRow(table, CHOOSE r \in records : r.order_id = o)
            ELSE table[o]]

\* bulk_upsert_orders: the counts, the statement, the commit
bulk_upsert_orders ==
    /\ fetch.records = {}
    /\ \E records \in FetchedBatches :
          LET new_count == Cardinality({r \in records : r.order_id \notin DOMAIN orders})
          IN  /\ orders' = UpsertAll(orders, records)
              /\ fetch' = [records |-> records, before |-> orders,
                           new_count |-> new_count,
                           existing_count |-> Cardinality(records) - new_count]
    /\ UNCHANGED <<bank_transactions, transaction_links, ingestVars, txVars, runVars,
                   upload, call, concVars>>

\* the store before the fetch: order 102 unmatched, matched to the stored
\* transaction by a run, or matched and reviewed; other orders unmatched
InitFetch ==
    /\ \E status \in Statuses, others \in SUBSET {101, 103, 104} :
          LET tx == TransactionOf("process_bank_file", StoredRow)
              h == tx.transaction_hash
              order == OrderCatalog[102]
              set == [MatchFields(tx.rec, order) EXCEPT !.reconciliation_status = status]
          IN  /\ bank_transactions =
                    (h :> IF status = "unmatched" THEN tx.rec
                          ELSE Merge(tx.rec, set @@ [order_id |-> 102]))
              /\ orders =
                    [o \in others \cup {102} |->
                        IF o # 102 \/ status = "unmatched" THEN OrderCatalog[o]
                        ELSE Merge(order, set @@ [transaction_ids |-> <<h>>])]
              /\ transaction_links = <<>>
    /\ NoIngestion
    /\ IdleRun
    /\ NoCalls

NextFetch == bulk_upsert_orders

SpecFetch == InitFetch /\ [][NextFetch]_vars

\* ------------------------------------------ the fingerprint applied alone
HashFields == {"date", "payer", "credits", "balance"}

\* cell values of the four fields, "" for a missing one (NaN)
HashFieldValues ==
    [f \in HashFields |->
        CASE f = "date"    -> {"", "2025-01-13", "2025-01-14"}
          [] f = "payer"   -> {"", "JUAN PEREZ", "ACME"}
          [] f = "credits" -> {"", "150.00", "4.00"}
          [] OTHER         -> {"", "1000.00", "1004.00"}]

\* f"{value}" of a cell: a missing cell (NaN) is formatted as 'nan'
FormatCell(value) == IF value = "" THEN "nan" ELSE value

\* two rows, fingerprinted one after the other
InitHash ==
    /\ EmptyStore
    /\ NoIngestion
    /\ IdleRun
    /\ upload = NoUpload
    /\ fetch = NoFetch
    /\ NoConcurrency
    /\ \E a \in [date : HashFieldValues["date"], payer : HashFieldValues["payer"],
                credits : HashFieldValues["credits"], balance : HashFieldValues["balance"]],
          b \in [date : HashFieldValues["date"], payer : HashFieldValues["payer"],
                credits : HashFieldValues["credits"], balance : HashFieldValues["balance"]] :
          call = [fn |-> "", args |-> [first |-> a, second |-> b], result |-> <<>>]

\* bank_upload: transaction_hash = create_transaction_hash(row, column_mapping)
CallCreateTransactionHash ==
    /\ call.fn = ""
    /\ call' = [fn |-> "create_transaction_hash", args |-> call.args,
                result |-> [first |-> create_transaction_hash_upload(call.args.first),
                            again |-> create_transaction_hash_upload(call.args.first),
                            second |-> create_transaction_hash_upload(call.args.second)]]
    /\ UNCHANGED <<storeVars, ingestVars, txVars, runVars, upload, fetch, concVars>>

\* bank_transaction_processor:
\* transaction_hash = create_hash(balance, row[date_col], credit_amount)
CallCreateHash ==
    /\ call.fn = ""
    /\ LET hash(row) == create_hash(FormatCell(row.balance), FormatCell(row.date),
                                    FormatCell(row.credits))
       IN  call' = [fn |-> "create_hash", args |-> call.args,
                    result |-> [first |-> hash(call.args.first),
                                again |-> hash(call.args.first),
                                second |-> hash(call.args.second)]]
    /\ UNCHANGED <<storeVars, ingestVars, txVars, runVars, upload, fetch, concVars>>

NextHash ==
    \/ CallCreateTransactionHash
    \/ CallCreateHash

SpecHash == InitHash /\ [][NextHash]_vars

\* ------------------------------------------- the amount parsers applied alone
\* a text is the sequence of its characters; a parsed number is
\* mant / 10^scale with no trailing zero in the fraction
Digits == {"0", "1", "2", "3", "4", "5", "6", "7", "8", "9"}

DigitValue(c) ==
    CASE c = "0" -> 0 [] c = "1" -> 1 [] c = "2" -> 2 [] c = "3" -> 3 [] c = "4" -> 4
      [] c = "5" -> 5 [] c = "6" -> 6 [] c = "7" -> 7 [] c = "8" -> 8 [] OTHER -> 9

Whitespace == {" "}

\* None / ValueError
Invalid == [valid |-> FALSE, mant |-> 0, scale |-> 0]

RECURSIVE Number(_, _)
Number(mant, scale) ==
    IF scale > 0 /\ mant % 10 = 0 THEN Number(mant \div 10, scale - 1)
    ELSE [valid |-> TRUE, mant |-> mant, scale |-> scale]

\* str.strip()
RECURSIVE strip(_)
strip(text) ==
    IF text = <<>> THEN text
    ELSE IF Head(text) \in Whitespace THEN strip(Tail(text))
    ELSE IF text[Len(text)] \in Whitespace THEN strip(SubSeq(text, 1, Len(text) - 1))
    ELSE text

\* str.count(c)
count(text, c) == Cardinality({k \in DOMAIN text : text[k] = c})

\* str.rfind(c): the last position of c, -1 when there is none
rfind(text, c) ==
    IF count(text, c) = 0 THEN -1
    ELSE CHOOSE k \in DOMAIN text :
            text[k] = c /\ \A j \in DOMAIN text : text[j] = c => j <= k

\* str.replace(c, '')
remove(text, c) == SelectSeq(text, LAMBDA x : x # c)

\* str.replace(c, d) for a character d
replace(text, c, d) == [k \in DOMAIN text |-> IF text[k] = c THEN d ELSE text[k]]

\* int() of a sequence of digits
RECURSIVE DigitsValue(_)
DigitsValue(ds) ==
    IF ds = <<>> THEN 0
    ELSE 10 * DigitsValue(SubSeq(ds, 1, Len(ds) - 1)) + DigitValue(ds[Len(ds)])

\* float(text) on texts of digits, '.', ',', '-', '+' and blanks: surrounding
\* blanks are dropped; an optional sign, then digits with at most one '.',
\* at least one digit; anything else raises ValueError
float(text) ==
    LET t == strip(text)
        signed == t # <<>> /\ t[1] \in {"-", "+"}
        body == IF signed THEN Tail(t) ELSE t
        dots == {k \in DOMAIN body : body[k] = "."}
        digits == SelectSeq(body, LAMBDA x : x \in Digits)
    IN  IF /\ \A k \in DOMAIN body : body[k] \in Digits \cup {"."}
           /\ Cardinality(dots) <= 1
           /\ digits # <<>>
          THEN Number((IF signed /\ t[1] = "-" THEN -1 ELSE 1) * DigitsValue(digits),
                      IF dots = {} THEN 0 ELSE Len(body) - (CHOOSE k \in dots : TRUE))
          ELSE Invalid

\* re.match(r'^-?\d+(\.\d+)?$', text)
MatchesPlainDecimal(text) ==
    LET body == IF text # <<>> /\ text[1] = "-" THEN Tail(text) ELSE text
        dots == {k \in DOMAIN body : body[k] = "."}
    IN  /\ body # <<>>
        /\ \A k \in DOMAIN body : body[k] \in Digits \cup {"."}
        /\ Cardinality(dots) <= 1
        /\ dots \cap {1, Len(body)} = {}

\* re.search(r',\d{1,2}$', text)
EndsWithCommaDigits(text) ==
    LET n == Len(text)
    IN  \/ n >= 2 /\ text[n - 1] = "," /\ text[n] \in Digits
        \/ n >= 3 /\ text[n - 2] = "," /\ text[n - 1] \in Digits /\ text[n] \in Digits

\* fetch_orders.parse_numeric_value on a str
parse_numeric_value(val) ==
    LET trimmed == strip(val)
        dot_count == count(trimmed, ".")
        comma_count == count(trimmed, ",")
        is_european_format == comma_count = 1 /\ EndsWithCommaDigits(trimmed)
        normalized == IF is_european_format
                        THEN replace(remove(trimmed, "."), ",", ".")
                        ELSE trimmed
    IN  IF trimmed = <<>> THEN Invalid
        ELSE IF \E k \in DOMAIN trimmed : trimmed[k] \in Whitespace THEN Invalid
        ELSE IF dot_count > 1 /\ comma_count = 0 THEN Invalid
        ELSE IF comma_count > 1 THEN Invalid
        ELSE IF /\ dot_count > 0 /\ comma_count > 0
                /\ rfind(trimmed, ".") > rfind(trimmed, ",") THEN Invalid
        ELSE IF ~MatchesPlainDecimal(normalized) THEN Invalid
        ELSE float(normalized)

\* bank_transaction_processor.parse_amount on a str
parse_amount(value) ==
    float(remove(remove(strip(value), ","), "$"))

\* bank_upload / process_bank_file:
\* float(str(credit_value).replace(',', '').replace('$', '').strip())
credit_amount_of(credit_value) ==
    float(strip(remove(remove(credit_value, ","), "$")))

Alphabet == {"1", "5", ".", ",", " ", "-"}

MaxTextLen == 3      \* characters of an enumerated text

\* the texts named by the amount contract
Text_1_234c56 == <<"1", ".", "2", "3", "4", ",", "5", "6">>
Text_1c234_56 == <<"1", ",", "2", "3", "4", ".", "5", "6">>
Text_12s34 == <<"1", "2", " ", "3", "4">>
Text_1c234c567 == <<"1", ",", "2", "3", "4", ",", "5", "6", "7">>

Texts ==
    {Text_1_234c56, Text_1c234_56, Text_12s34, Text_1c234c567}
    \cup UNION {[1..n -> Alphabet] : n \in 0..MaxTextLen}

InitParse ==
    /\ EmptyStore
    /\ NoIngestion
    /\ IdleRun
    /\ upload = NoUpload
    /\ fetch = NoFetch
    /\ NoConcurrency
    /\ \E text \in Texts : call = [fn |-> "", args |-> text, result |-> <<>>]

\* transform_orders: df['amount'].apply(parse_numeric_value)
CallParseNumericValue ==
    /\ call.fn = ""
    /\ call' = [fn |-> "parse_numeric_value", args |-> call.args,
                result |-> parse_numeric_value(call.args)]
    /\ UNCHANGED <<storeVars, ingestVars, txVars, runVars, upload, fetch, concVars>>

\* bank_transaction_processor.process_file: credit_amount = parse_amount(row[credits_col])
CallParseAmount ==
    /\ call.fn = ""
    /\ call' = [fn |-> "parse_amount", args |-> call.args,
                result |-> parse_amount(call.args)]
    /\ UNCHANGED <<storeVars, ingestVars, txVars, runVars, upload, fetch, concVars>>

\* bank_upload.process_bank_file: the credit_amount stored for a credit cell
CallCreditAmount ==
    /\ call.fn = ""
    /\ strip(call.args) # <<>>
    /\ call' = [fn |-> "credit_amount", args |-> call.args,
                result |-> credit_amount_of(call.args)]
    /\ UNCHANGED <<storeVars, ingestVars, txVars, runVars, upload, fetch, concVars>>

NextParse ==
    \/ CallParseNumericValue
    \/ CallParseAmount
    \/ CallCreditAmount

SpecParse == InitParse /\ [][NextParse]_vars

\* ---------------------------------- the reference extraction applied alone
UpperLetters == {"A", "B", "C", "D"}

\* str.upper() of one character
UpperChar(c) ==
    CASE c = "a" -> "A" [] c = "b" -> "B" [] OTHER -> c

\* str.upper()
str_upper(text) == [k \in DOMAIN text |-> UpperChar(text[k])]

\* re.sub(r'\s+', '', text) and ''.join(text.split())
remove_whitespace(text) == SelectSeq(text, LAMBDA c : c \notin Whitespace)

\* does [A-Z]{2}\d{6} match at position k
MatchesReferenceAt(text, k) ==
    /\ k >= 1
    /\ k + 7 <= Len(text)
    /\ \A j \in k..(k + 1) : text[j] \in UpperLetters
    /\ \A j \in (k + 2)..(k + 7) : text[j] \in Digits

\* re.search(r'[A-Z]{2}\d{6}', text): group(0) of the leftmost match, None
\* (<<>>) without one
re_search_reference(text) ==
    LET at == {k \in DOMAIN text : MatchesReferenceAt(text, k)}
    IN  IF at = {} THEN <<>>
        ELSE LET first == CHOOSE k \in at : \A j \in at : k <= j
             IN  SubSeq(text, first, first + 7)

\* normalize_description of the three pipelines on ASCII text: upper case,
\* all whitespace removed
normalize_description_text(desc) == remove_whitespace(str_upper(desc))

\* bank_upload.extract_reference: searched in str(description).upper()
extract_reference_upload(description) == re_search_reference(str_upper(description))

\* process_bank_file / bank_transaction_processor extract_reference: None
\* for an empty description, else searched in the description as given
extract_reference_text(description) ==
    IF description = <<>> THEN <<>> ELSE re_search_reference(description)

\* the description and extracted_reference a pipeline puts in the
\* transaction dict of a row
ReferenceFields(variant, raw_description) ==
    IF variant = "bank_upload"
      THEN [description |-> normalize_description_text(raw_description),
            extracted_reference |-> extract_reference_upload(raw_description)]
      ELSE [description |-> normalize_description_text(raw_description),
            extracted_reference |->
                extract_reference_text(normalize_description_text(raw_description))]

\* description cells: concatenations of these pieces
DescriptionPieces ==
    { <<"A", "B">>, <<"a", "b">>, <<"C">>, <<" ">>, <<"7">>,
      <<"1", "2", "3", "4", "5", "6">>,
      <<"C", "D", "6", "5", "4", "3", "2", "1">> }

MaxPieces == 3       \* pieces in one description cell

RECURSIVE Concat(_)
Concat(pieces) ==
    IF pieces = <<>> THEN <<>> ELSE Head(pieces) \o Concat(Tail(pieces))

Descriptions ==
    {Concat(ps) : ps \in UNION {[1..n -> DescriptionPieces] : n \in 0..MaxPieces}}

InitReference ==
    /\ EmptyStore
    /\ NoIngestion
    /\ IdleRun
    /\ upload = NoUpload
    /\ fetch = NoFetch
    /\ NoConcurrency
    /\ \E text \in Descriptions : call = [fn |-> "", args |-> text, result |-> <<>>]

\* the two description fields of the transaction a pipeline builds for a row
CallReferenceFields(variant) ==
    /\ call.fn = ""
    /\ call' = [fn |-> variant, args |-> call.args,
                result |-> ReferenceFields(variant, call.args)]
    /\ UNCHANGED <<storeVars, ingestVars, txVars, runVars, upload, fetch, concVars>>

ReferenceUpload == CallReferenceFields("bank_upload")
ReferenceProcessBankFile == CallReferenceFields("process_bank_file")
ReferenceProcessor == CallReferenceFields("bank_transaction_processor")

NextReference ==
    \/ ReferenceUpload
    \/ ReferenceProcessBankFile
    \/ ReferenceProcessor

SpecReference == InitReference /\ [][NextReference]_vars

\* ------------------------------------------- two ingestion runs at once
\* Each run inserts on its own connection inside one transaction (READ
\* COMMITTED).  INSERT ... ON CONFLICT (transaction_hash) DO NOTHING on a
\* fingerprint that another open transaction has inserted waits for that
\* transaction to end; two runs waiting for each other are a deadlock, which
\* the server resolves by failing the statement of one of them.
Sessions == {1, 2}

Other(s) == 3 - s

MaxConcRows == 3     \* rows in the file of a concurrent run

ConcurrentBatches == UNION {[1..n -> BankRows] : n \in 1..MaxConcRows}

IdleSession ==
    [state |-> "idle", variant |-> "", txs |-> <<>>, k |-> 1,
     inserted |-> 0, duplicates |-> 0, written |-> EmptyTable, before |-> EmptyTable]

\* the fingerprint of the INSERT a run is about to execute
PendingHash(s) == sessions[s].txs[sessions[s].k].transaction_hash

Executing(s) ==
    /\ sessions[s].state \in {"open", "aborted"}
    /\ sessions[s].k <= Len(sessions[s].txs)

\* the INSERT of run s has to wait for the transaction of the other run
Waits(s) ==
    /\ Executing(s)
    /\ sessions[s].state = "open"
    /\ PendingHash(s) \notin DOMAIN bank_transactions
    /\ PendingHash(s) \notin DOMAIN sessions[s].written
    /\ PendingHash(s) \in DOMAIN sessions[Other(s)].written

\* process_file, then insert_transactions up to "for txn in transactions"
Connect ==
    \E s \in Sessions, variant \in {"bank_upload", "process_bank_file"},
       batch \in ConcurrentBatches :
        /\ sessions[s].state = "idle"
        /\ sessions' = [sessions EXCEPT ![s] =
              [state |-> "open", variant |-> variant,
               txs |-> ProcessFile(variant, batch), k |-> 1,
               inserted |-> 0, duplicates |-> 0, written |-> EmptyTable,
               before |-> IF sessions[Other(s)].state = "idle"
                            THEN bank_transactions
                            ELSE sessions[Other(s)].before]]
        /\ UNCHANGED <<storeVars, ingestVars, txVars, runVars, upload, fetch, call, rival>>

\* cursor.execute(INSERT ... ON CONFLICT DO NOTHING) returns: rowcount 1 and
\* an uncommitted row, or rowcount 0 when the fingerprint is committed or
\* was inserted earlier in this transaction
ExecuteInsert ==
    \E s \in Sessions :
        /\ Executing(s)
        /\ sessions[s].state = "open"
        /\ ~Waits(s)
        /\ LET tx == sessions[s].txs[sessions[s].k]
               present == \/ tx.transaction_hash \in DOMAIN bank_transactions
                          \/ tx.transaction_hash \in DOMAIN sessions[s].written
           IN  sessions' = [sessions EXCEPT
                  ![s].k = @ + 1,
                  ![s].inserted = IF present THEN @ ELSE @ + 1,
                  ![s].duplicates = IF present THEN @ + 1 ELSE @,
                  ![s].written = IF present THEN @ ELSE Put(@, tx.transaction_hash, tx.rec)]
        /\ UNCHANGED <<storeVars, ingestVars, txVars, runVars, upload, fetch, call, rival>>

\* both runs wait for each other: the INSERT of one raises "deadlock
\* detected", its transaction is aborted and its rows are gone; the except
\* branch counts the row as skipped and the loop goes on
DeadlockDetected ==
    \E s \in Sessions :
        /\ Waits(s)
        /\ Waits(Other(s))
        /\ sessions' = [sessions EXCEPT
              ![s].state = "aborted",
              ![s].k = @ + 1,
              ![s].duplicates = @ + 1,
              ![s].written = EmptyTable]
        /\ UNCHANGED <<storeVars, ingestVars, txVars, runVars, upload, fetch, call, rival>>

\* cursor.execute in an aborted transaction raises; the except branch counts
\* the row as skipped
ExecuteInAborted ==
    \E s \in Sessions :
        /\ Executing(s)
        /\ sessions[s].state = "aborted"
        /\ sessions' = [sessions EXCEPT ![s].k = @ + 1, ![s].duplicates = @ + 1]
        /\ UNCHANGED <<storeVars, ingestVars, txVars, runVars, upload, fetch, call, rival>>

\* conn.commit() and return inserted, duplicates; the commit of an aborted
\* transaction is a rollback
CommitInserts ==
    \E s \in Sessions :
        /\ sessions[s].state \in {"open", "aborted"}
        /\ sessions[s].k > Len(sessions[s].txs)
        /\ bank_transactions' =
              [h \in DOMAIN bank_transactions \cup DOMAIN sessions[s].written |->
                  IF h \in DOMAIN bank_transactions THEN bank_transactions[h]
                  ELSE sessions[s].written[h]]
        /\ sessions' = [sessions EXCEPT
              ![s].state = IF @ = "open" THEN "committed" ELSE "rolled_back",
              ![s].written = EmptyTable]
        /\ UNCHANGED <<orders, transaction_links, ingestVars, txVars, runVars,
                       upload, fetch, call, rival>>

\* the store before the two runs: empty, or holding the first row already
InitConcurrent ==
    /\ bank_transactions \in {EmptyTable, TableOf({StoredRow})}
    /\ orders = EmptyTable
    /\ transaction_links = <<>>
    /\ NoIngestion
    /\ IdleRun
    /\ upload = NoUpload
    /\ fetch = NoFetch
    /\ call = NoCall
    /\ sessions = [s \in Sessions |-> IdleSession]
    /\ rival = NoRival

NextConcurrent ==
    \/ Connect
    \/ ExecuteInsert
    \/ DeadlockDetected
    \/ ExecuteInAborted
    \/ CommitInserts

SpecConcurrent == InitConcurrent /\ [][NextConcurrent]_vars

\* -------------------------------------------------- Pass A on a wider store
\* a stored bank transaction as process_bank_file leaves it, with its status
StoredTransaction(balance, date, amount, payer, day, cents, ref, status) ==
    [transaction_hash |->
        create_transaction_hash([balance |-> balance, date |-> date,
                                 credit_amount |-> amount, payer_sender |-> payer]),
     rec |-> [NewTransaction(payer, day, cents, "", ref)
                 EXCEPT !.reconciliation_status = status]]

\* commissions at both ends of 3.50..4.50 and just below it; main payments
\* with every kind of score, at 5 and at 6 days, at 10.00 and at 10.01, and
\* one that is already confirmed
LinkCatalog ==
    { StoredTransaction("104.00", "2025-01-14 00:00:00", "4.0", "JUAN PEREZ",
                        14, 400, "AB123456", "unmatched"),
      StoredTransaction("108.50", "2025-01-20 00:00:00", "4.5", "JUAN PEREZ",
                        20, 450, "", "unmatched"),
      StoredTransaction("112.00", "2025-01-14 00:00:00", "3.5", "J. PEREZ",
                        14, 350, "", "unmatched"),
      StoredTransaction("115.49", "2025-01-14 00:00:00", "3.49", "JUAN PEREZ",
                        14, 349, "", "unmatched"),
      StoredTransaction("1000.00", "2025-01-13 00:00:00", "150.0", "JUAN PEREZ",
                        13, 15000, "AB123456", "unmatched"),
      StoredTransaction("1150.50", "2025-01-14 00:00:00", "150.5", "J. PEREZ",
                        14, 15050, "", "unmatched"),
      StoredTransaction("1300.50", "2025-01-19 00:00:00", "150.0", "XYKW",
                        19, 15000, "AB123456", "unmatched"),
      StoredTransaction("1450.50", "2025-01-20 00:00:00", "150.0", "JUAN PEREZ",
                        20, 15000, "", "unmatched"),
      StoredTransaction("1460.50", "2025-01-14 00:00:00", "10.0", "JUAN PEREZ",
                        14, 1000, "", "unmatched"),
      StoredTransaction("1470.51", "2025-01-14 00:00:00", "10.01", "JUAN PERAB",
                        14, 1001, "", "unmatched"),
      StoredTransaction("1620.51", "2025-01-14 00:00:00", "150.0", "JUAN PEABC",
                        14, 15000, "", "unmatched"),
      StoredTransaction("1770.51", "2025-01-14 00:00:00", "150.0", "JUAN PEREZ",
                        14, 15000, "AB123456", "confirmed"),
      StoredTransaction("1774.51", "2025-01-14 00:00:00", "4.0", "JUAN PEREZ",
                        14, 400, "AB123456", "confirmed") }

MaxLinkRows == 4     \* bank transactions in the store before Pass A

\* a link row as Pass A inserts it
LinkRow(main, commission) ==
    [primary_transaction_hash |-> main, linked_transaction_hash |-> commission,
     link_type |-> "commission", status |-> "suggested"]

\* the store before the run: transactions of the catalog and at most one
\* link left by an earlier run
InitLinks ==
    /\ \E txs \in SUBSET LinkCatalog :
          /\ Cardinality(txs) <= MaxLinkRows
          /\ bank_transactions =
                [h \in {tx.transaction_hash : tx \in txs} |->
                    (CHOOSE tx \in txs : tx.transaction_hash = h).rec]
    /\ \/ transaction_links = <<>>
       \/ \E m, c \in DOMAIN bank_transactions :
             /\ IsMain(bank_transactions[m])
             /\ IsCommission(bank_transactions[c])
             /\ transaction_links = <<LinkRow(m, c)>>
    /\ orders = EmptyTable
    /\ NoIngestion
    /\ IdleRun
    /\ NoCalls

\* a run up to the end of suggest_transaction_links, and its failure after it
NextLinks ==
    \/ StartRun
    \/ PassA
    \/ Raise

SpecLinks == InitLinks /\ [][NextLinks]_vars

\* -------------------------------------- the order pass on a wider store
\* bank transactions at the amount boundary (150.99 against 150.00), with a
\* missing date and with a missing amount, and a commission
ScanBankCatalog ==
    { StoredTransaction("1000.00", "2025-01-13 00:00:00", "150.0", "JUAN PEREZ",
                        13, 15000, "AB123456", "unmatched"),
      StoredTransaction("1150.50", "2025-01-14 00:00:00", "150.5", "JUAN PEREZ",
                        14, 15050, "", "unmatched"),
      StoredTransaction("1301.49", "2025-01-13 00:00:00", "150.99", "JUAN PEREZ",
                        13, 15099, "", "unmatched"),
      StoredTransaction("1451.49", "", "150.0", "JUAN PEREZ",
                        NULL, 15000, "AB123456", "unmatched"),
      StoredTransaction("1451.49", "2025-01-13 00:00:00", "", "JUAN PEREZ",
                        13, NULL, "AB123456", "unmatched"),
      StoredTransaction("1455.49", "2025-01-14 00:00:00", "4.0", "JUAN PEREZ",
                        14, 400, "AB123456", "unmatched") }

\* orders of the catalog and orders with a missing date, with a missing
\* amount, and at both ends of the date window
ScanOrderCatalog ==
    [o \in 101..108 |->
        CASE o \in 101..104 -> OrderCatalog[o]
          [] o = 105 -> NewOrder("JUAN PEREZ", NULL, 15000, "ab123456")
          [] o = 106 -> NewOrder("JUAN PEREZ", 13, NULL, "ab123456")
          [] o = 107 -> NewOrder("JUAN PEREZ", 16, 15000, "")
          [] OTHER   -> NewOrder("JUAN PEREZ", 10, 15000, "")]

MaxScanBank == 2     \* bank transactions in the store before the run
MaxScanOrders == 2   \* orders in the store before the run

InitScan ==
    /\ \E txs \in SUBSET ScanBankCatalog :
          /\ Cardinality(txs) <= MaxScanBank
          /\ bank_transactions =
                [h \in {tx.transaction_hash : tx \in txs} |->
                    (CHOOSE tx \in txs : tx.transaction_hash = h).rec]
    /\ \E ids \in SUBSET DOMAIN ScanOrderCatalog :
          /\ Cardinality(ids) <= MaxScanOrders
          /\ orders = [o \in ids |-> ScanOrderCatalog[o]]
    /\ transaction_links = <<>>
    /\ NoIngestion
    /\ IdleRun
    /\ NoCalls

NextScan ==
    \/ StartRun
    \/ PassA
    \/ SelectCandidates
    \/ ScanBank
    \/ UpdateOrder
    \/ Commit
    \/ Raise

SpecScan == InitScan /\ [][NextScan]_vars

\* ------------------------------------- two matching runs on the same store
\* A second run_suggestions process works on its own connection while the
\* first one is between get_connection and commit. Under READ COMMITTED its
\* SELECTs see the committed rows only; an UPDATE of a row the other
\* transaction has updated waits for that transaction to end and then
\* overwrites the row, because the WHERE clause names the key alone.

\* the loops of lines 218-328 over the rows a run has fetched: the UPDATEs
\* the run has executed when it reaches its commit
RECURSIVE OrderPass(_, _, _)
OrderPass(banks, rows, acc) ==
    IF banks = <<>> THEN acc
    ELSE
      LET h == Head(banks)
          bank == bank_transactions[h]
          o == IF h \in acc.matched_bank_ids THEN NULL
               ELSE ScanOrders(bank, rows, acc.matched_order_ids)
      IN  IF o = NULL THEN OrderPass(Tail(banks), rows, acc)
          ELSE OrderPass(Tail(banks), rows,
                 [tx_bank |-> Put(acc.tx_bank, h,
                                  MatchFields(bank, orders[o]) @@ [order_id |-> o]),
                  tx_orders |-> Put(acc.tx_orders, o,
                                    MatchFields(bank, orders[o])
                                        @@ [transaction_ids |-> <<h>>]),
                  matched_bank_ids |-> acc.matched_bank_ids \cup {h},
                  matched_order_ids |-> acc.matched_order_ids \cup {o}])

NoUpdates ==
    [tx_bank |-> EmptyTable, tx_orders |-> EmptyTable,
     matched_bank_ids |-> {}, matched_order_ids |-> {}]

\* the UPDATEs of the second run, from the rows it fetched
RivalUpdates == OrderPass(rival.bank_txns, rival.order_rows, NoUpdates)

\* the second run up to the end of its SELECTs: Pass A with its INSERTs
\* pending, then the two candidate lists, all read while the first run has
\* not committed
RivalSelect ==
    /\ rival.pc = "idle"
    /\ Active
    /\ \E comms \in Perms({h \in Unmatched(bank_transactions) : IsCommission(bank_transactions[h])}),
          mains \in Perms({h \in Unmatched(bank_transactions) : IsMain(bank_transactions[h])}),
          banks \in Perms(Unmatched(bank_transactions)),
          rows \in Perms(Unmatched(orders)) :
          rival' = [pc |-> "scan",
                    commission_txns |-> comms,
                    main_txns |-> mains,
                    bank_txns |-> banks,
                    order_rows |-> rows,
                    tx_links |->
                        LinkLoop(bank_transactions, comms, mains,
                                 ExistingLinks(transaction_links),
                                 [inserted |-> <<>>, linked_commissions |-> {},
                                  links_count |-> 0]).inserted]
    /\ UNCHANGED <<storeVars, ingestVars, txVars, runVars, upload, fetch, call, sessions>>

\* the second run from its first UPDATE to its commit, after the first run
\* has read its candidates; its UPDATEs wait while the first run holds an
\* uncommitted update of the same row
RivalCommit ==
    /\ rival.pc = "scan"
    /\ pc \in {"scan", "order_update", "done", "failed"}
    /\ DOMAIN RivalUpdates.tx_bank \cap DOMAIN tx_bank = {}
    /\ DOMAIN RivalUpdates.tx_orders \cap DOMAIN tx_orders = {}
    /\ bank_transactions' = ApplyUpdates(bank_transactions, RivalUpdates.tx_bank)
    /\ orders' = ApplyUpdates(orders, RivalUpdates.tx_orders)
    /\ transaction_links' = transaction_links \o rival.tx_links
    /\ rival' = [rival EXCEPT !.pc = "done", !.tx_links = <<>>]
    /\ UNCHANGED <<ingestVars, txVars, runVars, upload, fetch, call, sessions>>

\* a statement of the second run raises: rollback and raise
RivalRaise ==
    /\ rival.pc = "scan"
    /\ rival' = [rival EXCEPT !.pc = "failed", !.tx_links = <<>>]
    /\ UNCHANGED <<storeVars, ingestVars, txVars, runVars, upload, fetch, call, sessions>>

MaxRivalBank == 2    \* bank transactions in the store before the two runs
MaxRivalOrders == 2  \* orders in the store before the two runs

\* the store before the two runs: complete records only
InitRivals ==
    /\ \E txs \in SUBSET {tx \in ScanBankCatalog :
                              /\ tx.rec.transaction_date # NULL
                              /\ tx.rec.credit_amount # NULL} :
          /\ Cardinality(txs) <= MaxRivalBank
          /\ bank_transactions =
                [h \in {tx.transaction_hash : tx \in txs} |->
                    (CHOOSE tx \in txs : tx.transaction_hash = h).rec]
    /\ \E ids \in SUBSET DOMAIN OrderCatalog :
          /\ Cardinality(ids) <= MaxRivalOrders
          /\ orders = [o \in ids |-> OrderCatalog[o]]
    /\ transaction_links = <<>>
    /\ NoIngestion
    /\ IdleRun
    /\ NoCalls

NextRivals ==
    \/ StartRun
    \/ PassA
    \/ SelectCandidates
    \/ ScanBank
    \/ UpdateOrder
    \/ Commit
    \/ Raise
    \/ RivalSelect
    \/ RivalCommit
    \/ RivalRaise

SpecRivals == InitRivals /\ [][NextRivals]_vars

\* ------------------------------------------------------------- claims
\* the pairs the store records as matched, from either side
MatchedPairs ==
    {<<h, bank_transactions[h].order_id>> :
        h \in {x \in DOMAIN bank_transactions : bank_transactions[x].order_id # NULL}}
    \cup UNION {{<<h, o>> : h \in Range(orders[o].transaction_ids)} : o \in DOMAIN orders}

\* C1: after run_suggestions completes, no bank transaction is recorded as
\* matched to more than one order and no order as matched to more than one
\* bank transaction
C1_MatchingExclusivity ==
    pc = "done" =>
        \A p, q \in MatchedPairs : (p[1] = q[1]) <=> (p[2] = q[2])

\* a completed run in which two candidate transactions both qualified for
\* the same candidate order and one of them got it
C1_Witness ==
    /\ pc = "done"
    /\ \E h1, h2 \in Range(bank_txns), o \in Range(order_rows) :
          /\ h1 # h2
          /\ Accepts(bank_transactions[h1], orders[o])
          /\ Accepts(bank_transactions[h2], orders[o])
          /\ bank_transactions[h1].order_id = o

SameFileAgain ==
    /\ ingests >= 2
    /\ report.batch = prev_report.batch
    /\ report.variant = prev_report.variant

NormTuple(row) ==
    <<DayOf(row.date), normalize_payer_sender(row.payer), ParseCredit(row.credits),
      row.balance>>

\* C3: the store holds exactly one record per distinct (date, normalized
\* payer, credit amount, balance) tuple ingested: equal tuples share a
\* record and different tuples never do
C3_OneRecordPerTuple ==
    /\ \A x, y \in ingested :
          (NormTuple(x.row) = NormTuple(y.row))
              <=> (HashOf(x.variant, x.row) = HashOf(y.variant, y.row))
    /\ Cardinality(DOMAIN bank_transactions)
          = Cardinality({NormTuple(x.row) : x \in ingested})

\* C4: a run that starts right after a completed run on an unchanged store
\* writes no new order match and no new transaction link
C4_SecondRunWritesNothing ==
    quiet =>
        /\ tx_links = <<>> /\ links_count = 0
        /\ tx_bank = EmptyTable /\ tx_orders = EmptyTable /\ suggestions_count = 0

C5_NotRead ==
    /\ Range(commission_txns) \cup Range(main_txns) \cup Range(bank_txns)
          \subseteq start_unmatched_bank
    /\ Range(order_rows) \subseteq start_unmatched_orders

C5_NotWritten ==
    /\ DOMAIN tx_bank \subseteq start_unmatched_bank
    /\ DOMAIN tx_orders \subseteq start_unmatched_orders
    /\ Linked(tx_links) \subseteq start_unmatched_bank

C5_CommitLeavesThem ==
    (pc = "scan" /\ pc' = "done") =>
        /\ \A h \in DOMAIN bank_transactions \ start_unmatched_bank :
              bank_transactions'[h] = bank_transactions[h]
        /\ \A o \in DOMAIN orders \ start_unmatched_orders : orders'[o] = orders[o]

\* C5: a transaction or order that is not 'unmatched' when a run starts is
\* in none of the run's candidate lists (Pass A and order matching) and is
\* not written by the run
C5_OnlyUnmatchedTouched ==
    [](C5_NotRead /\ C5_NotWritten) /\ [][C5_CommitLeavesThem]_vars

\* a second run that wrote a link while a record matched by the first run
\* was in the store
C5_Witness ==
    /\ pc = "done"
    /\ links_count > 0
    /\ DOMAIN bank_transactions \ start_unmatched_bank # {}
    /\ DOMAIN orders \ start_unmatched_orders # {}

\* C6: in every committed state, a transaction is 'suggested_match' with
\* order_id = o exactly when order o is 'suggested_match' with that
\* transaction's hash in transaction_ids
C6_PairAtomicity ==
    /\ \A h \in DOMAIN bank_transactions, o \in DOMAIN orders :
          (/\ bank_transactions[h].reconciliation_status = "suggested_match"
           /\ bank_transactions[h].order_id = o)
          <=> (/\ orders[o].reconciliation_status = "suggested_match"
               /\ h \in Range(orders[o].transaction_ids))
    /\ \A h \in DOMAIN bank_transactions :
          bank_transactions[h].reconciliation_status = "suggested_match"
              => bank_transactions[h].order_id \in DOMAIN orders

\* a run that raised between UPDATE bank_transactions and UPDATE orders
C6_Witness ==
    /\ pc = "failed"
    /\ fail_step = "order_update"
    /\ cur_order # NULL

C7_NothingKept ==
    pc = "failed" =>
        /\ exit_status = 1
        /\ \A h \in matched_bank_ids :
              /\ bank_transactions[h].reconciliation_status = "unmatched"
              /\ bank_transactions[h].order_id = NULL
        /\ \A o \in matched_order_ids :
              /\ orders[o].reconciliation_status = "unmatched"
              /\ orders[o].transaction_ids = <<>>

C7_RaiseLeavesStore ==
    (pc # "failed" /\ pc' = "failed") =>
        /\ bank_transactions' = bank_transactions
        /\ orders' = orders
        /\ transaction_links' = transaction_links

C8_CommitKeepsSettled ==
    (pc = "scan" /\ pc' = "done") =>
        /\ \A h \in DOMAIN bank_transactions :
              bank_transactions[h].reconciliation_status # "unmatched"
                  => bank_transactions'[h] = bank_transactions[h]
        /\ \A o \in DOMAIN orders :
              orders[o].reconciliation_status # "unmatched" => orders'[o] = orders[o]

\* C8: a record whose status an external actor changed after the run read
\* its candidates is not overwritten by the run's writes
C8_WritesGuarded ==
    [][C8_CommitKeepsSettled]_vars

\* the link rows the completed run added
RunLinks ==
    SubSeq(transaction_links, Len(transaction_links) - links_count + 1,
           Len(transaction_links))

RefEqualCI(a, b) ==
    /\ a # "" /\ b # ""
    /\ \/ a = b
       \/ {a, b} = {"AB123456", "ab123456"}

WithinTolerances(bank, order) ==
    /\ Abs(bank.credit_amount - order.amount_total_fee) < 99
    /\ bank.transaction_date - order.order_date \in -2..3

C11_ToleranceBoundary ==
    /\ (/\ call.fn = "check_amount_match"
        /\ call.args.bank_amount # NULL
        /\ call.args.order_amount # NULL)
       => LET diff == Abs(call.args.bank_amount - call.args.order_amount)
          IN  /\ diff = 99 => call.result = TRUE
              /\ diff = 100 => call.result = FALSE
    /\ (/\ call.fn = "check_date_match"
        /\ call.args.bank_date # NULL
        /\ call.args.order_date # NULL)
       => LET days == call.args.bank_date - call.args.order_date
          IN  /\ days \in {-2, 3} => call.result = TRUE
              /\ days \in {-3, 4} => call.result = FALSE

\* a step taken by run_suggestions itself (not by a reviewer): its position,
\* its lists or its uncommitted writes change
EngineStep ==
    /\ Active
    /\ <<txVars, runVars>>' # <<txVars, runVars>>

C12_EngineMoves ==
    EngineStep =>
        /\ DOMAIN bank_transactions' = DOMAIN bank_transactions
        /\ DOMAIN orders' = DOMAIN orders
        /\ \A h \in DOMAIN bank_transactions :
              bank_transactions'[h].reconciliation_status
                    # bank_transactions[h].reconciliation_status
                => /\ bank_transactions[h].reconciliation_status = "unmatched"
                   /\ bank_transactions'[h].reconciliation_status = "suggested_match"
        /\ \A o \in DOMAIN orders :
              orders'[o].reconciliation_status # orders[o].reconciliation_status
                => /\ orders[o].reconciliation_status = "unmatched"
                   /\ orders'[o].reconciliation_status = "suggested_match"

\* C12: the matching engine only ever moves a record from 'unmatched' to
\* 'suggested_match': it never sets 'confirmed' or 'rejected', never moves a
\* record back to 'unmatched', and never deletes a bank transaction or order
C12_OnlyUnmatchedToSuggested ==
    [][C12_EngineMoves]_vars

Handled == upload.variant # ""

\* C13: if any of the required columns date, payer, description or credit
\* amount cannot be resolved, no row of the batch is inserted and a 'missing
\* columns' failure is reported; a missing balance column alone does not
\* abort the batch
C13_FailFastOnStructure ==
    Handled =>
        LET required == {"date", "payer", "description", "credits"}
        IN  /\ required \ upload.file.columns # {}
                => /\ bank_transactions = upload.before
                   /\ upload.response.status = "missing_columns"
            /\ (required \subseteq upload.file.columns
                    /\ "balance" \notin upload.file.columns)
                => upload.response.status # "missing_columns"

\* the rows of the handled file that reach the row loop
LoopRows == KeptRows(upload.variant, upload.file)

RowsLooped ==
    /\ Handled
    /\ upload.response.status # "missing_columns"

\* C14: a row whose credit amount is missing, non-numeric or not positive, or
\* whose date is unparseable, is skipped and adds one per-row diagnostic; it
\* never aborts the batch, and every other valid row of the batch is still
\* ingested
C14_BadRowsSkippedWithDiagnostic ==
    RowsLooped =>
        /\ Len(upload.diagnostics)
              = Cardinality({k \in DOMAIN LoopRows : ~RowAccepted(LoopRows[k])})
        /\ DOMAIN bank_transactions
              = DOMAIN upload.before
                  \cup {HashOf(upload.variant, LoopRows[k]) :
                          k \in {i \in DOMAIN LoopRows : RowAccepted(LoopRows[i])}}
\* a debit cell that is empty or holds the amount zero
DebitZeroOrEmpty(cell) == cell \in {"", "0", "0.00"}

\* C15: no row whose debit column holds a non-zero value is ever stored as a
\* bank transaction; rows whose debit is empty or zero are not excluded by
\* the debit filter (a valid one is stored when every INSERT succeeds)
C15_DebitRowsExcluded ==
    (RowsLooped /\ "debit" \in upload.file.columns) =>
        \A k \in DOMAIN upload.file.rows :
            LET row == upload.file.rows[k]
                stored == HashOf(upload.variant, row) \in DOMAIN bank_transactions
            IN  /\ ~DebitZeroOrEmpty(row.debit) => ~stored
                /\ (DebitZeroOrEmpty(row.debit) /\ RowAccepted(row) /\ upload.fail_at = 0)
                      => stored

\* the transactions the handled file yields, in row order
Processed == ProcessFile(upload.variant, LoopRows)

\* the rows whose fingerprint was already present, in the store or earlier in
\* the batch, when their INSERT ran
AlreadyPresent ==
    {k \in DOMAIN Processed :
        \/ Processed[k].transaction_hash \in DOMAIN upload.before
        \/ \E j \in 1..(k - 1) :
              Processed[j].transaction_hash = Processed[k].transaction_hash}

\* C16: for every batch, inserted + duplicates = number of rows processed,
\* inserted equals the number of records the store gained, and duplicates
\* equals the number of rows whose fingerprint was already present; the
\* diagnostics list returned to the caller holds at most 10 entries while the
\* reported error count is the full count
C16_CountsAccurate ==
    (Handled /\ upload.variant # "bank_transaction_processor"
             /\ upload.response.status = "ok") =>
        /\ upload.response.processed = Len(Processed)
        /\ upload.response.inserted + upload.response.duplicates
              = upload.response.processed
        /\ upload.response.inserted
              = Cardinality(DOMAIN bank_transactions) - Cardinality(DOMAIN upload.before)
        /\ upload.response.duplicates = Cardinality(AlreadyPresent)
        /\ Len(upload.response.errors) <= 10
        /\ (upload.variant = "bank_upload")
              => upload.response.error_count = Len(upload.diagnostics)

\* C18: ingestion never changes a stored bank transaction: re-ingesting a row
\* whose fingerprint is already stored leaves that record's
\* reconciliation_status, order_id and match fields unchanged, also when the
\* record is already 'suggested_match', 'confirmed' or 'rejected'
C18_StoredRecordsUnchanged ==
    Handled =>
        \A h \in DOMAIN upload.before :
            /\ h \in DOMAIN bank_transactions
            /\ bank_transactions[h] = upload.before[h]

\* a file re-ingested a row whose record had been matched or reviewed, and
\* every INSERT succeeded
C18_Witness ==
    /\ Handled
    /\ upload.fail_at = 0
    /\ upload.response.status = "ok"
    /\ \E k \in DOMAIN Processed :
          LET h == Processed[k].transaction_hash
          IN  /\ h \in DOMAIN upload.before
              /\ upload.before[h].reconciliation_status = "confirmed"
              /\ upload.before[h].order_id # NULL

Fetched == fetch.records # {}

\* C17: the order upsert never changes an order whose reconciliation_status
\* is not 'unmatched': all its fields are left as they were; and for an
\* existing 'unmatched' order the upsert leaves reconciliation_status,
\* match_name_score, diff_days, diff_amount and transaction_ids unchanged
C17_UpsertFrame ==
    Fetched =>
        \A o \in DOMAIN fetch.before :
            /\ o \in DOMAIN orders
            /\ fetch.before[o].reconciliation_status # "unmatched"
                  => orders[o] = fetch.before[o]
            /\ fetch.before[o].reconciliation_status = "unmatched"
                  => \A f \in {"reconciliation_status", "match_name_score", "diff_days",
                               "diff_amount", "transaction_ids"} :
                        orders[o][f] = fetch.before[o][f]

\* a batch that brought changed data for an order that is not 'unmatched'
\* and for an 'unmatched' order, which it updated
C17_Witness ==
    /\ Fetched
    /\ \E r \in fetch.records :
          /\ r.order_id \in DOMAIN fetch.before
          /\ fetch.before[r.order_id].reconciliation_status # "unmatched"
          /\ UpsertSet(r.rec) # UpsertSet(fetch.before[r.order_id])
    /\ \E r \in fetch.records :
          /\ r.order_id \in DOMAIN fetch.before
          /\ fetch.before[r.order_id].reconciliation_status = "unmatched"
          /\ orders[r.order_id] # fetch.before[r.order_id]

\* C19: for all (date, payer, amount, balance), the fingerprint is the same
\* on repeated calls, changes when any single one of the four fields changes,
\* and changes when a different field is the missing one
C19_FingerprintSensitivity ==
    call.fn \in {"create_transaction_hash", "create_hash"} =>
        LET a == call.args.first
            b == call.args.second
            differing == {f \in HashFields : a[f] # b[f]}
        IN  /\ call.result.first = call.result.again
            /\ Cardinality(differing) = 1 => call.result.first # call.result.second
            /\ (\E f, g \in HashFields :
                    /\ differing = {f, g} /\ f # g
                    /\ a[f] = "" /\ b[f] # ""
                    /\ b[g] = "" /\ a[g] # "")
                  => call.result.first # call.result.second

\* 1234.56
Amount_1234_56 == Number(123456, 2)

\* C20: parse("1.234,56") = 1234.56, parse("1,234.56") = 1234.56,
\* parse("12 34") is invalid and parse("1,234,567") is invalid; and a credit
\* amount written "1.234,56" in an ingested row is stored as 1234.56
C20_AmountParsing ==
    /\ call.fn \in {"parse_numeric_value", "parse_amount"} =>
          /\ call.args = Text_1_234c56 => call.result = Amount_1234_56
          /\ call.args = Text_1c234_56 => call.result = Amount_1234_56
          /\ call.args = Text_12s34 => call.result = Invalid
          /\ call.args = Text_1c234c567 => call.result = Invalid
    /\ (call.fn = "credit_amount" /\ call.args = Text_1_234c56)
          => call.result = Amount_1234_56

\* C21: for every ingested row, the stored extracted_reference is the first
\* left-to-right occurrence of two uppercase letters immediately followed by
\* six digits in the stored (uppercased, whitespace-stripped) description, or
\* is empty when the stored description has no such occurrence
C21_ReferenceIsFirstInStoredDescription ==
    call.fn \in Variants =>
        LET description == call.result.description
            reference == call.result.extracted_reference
            at == {k \in DOMAIN description : MatchesReferenceAt(description, k)}
        IN  /\ at = {} => reference = <<>>
            /\ \A k \in at :
                  (\A j \in at : k <= j) => reference = SubSeq(description, k, k + 7)

BothClosed == \A s \in Sessions : sessions[s].state \in {"committed", "rolled_back"}

\* the fingerprints the two runs handed to INSERT
Fingerprints ==
    UNION {{sessions[s].txs[k].transaction_hash : k \in DOMAIN sessions[s].txs} :
              s \in Sessions}

\* C22: two ingestion runs executing concurrently over overlapping rows leave
\* exactly one stored record per fingerprint, and the sum of their inserted
\* counts equals the number of distinct fingerprints that were new to the
\* store, for every interleaving of their inserts
C22_ConcurrentIngestion ==
    BothClosed =>
        /\ Fingerprints \subseteq DOMAIN bank_transactions
        /\ sessions[1].inserted + sessions[2].inserted
              = Cardinality(Fingerprints \ DOMAIN sessions[1].before)

\* the score Pass A gives a commission and a main payment
LinkScore(c, m) ==
    IF RefEqualCI(bank_transactions[c].extracted_reference,
                  bank_transactions[m].extracted_reference) THEN 100
    ELSE IF check_name_match(bank_transactions[c].payer_sender,
                             bank_transactions[m].payer_sender) >= 80
        THEN check_name_match(bank_transactions[c].payer_sender,
                              bank_transactions[m].payer_sender)
    ELSE 0

AlreadyLinked(m, c) ==
    \E k \in DOMAIN transaction_links :
        {transaction_links[k].primary_transaction_hash,
         transaction_links[k].linked_transaction_hash} = {m, c}

\* positions in main_txns of the mains that are eligible for commission c
EligibleMains(c) ==
    {k \in DOMAIN main_txns :
        /\ ~AlreadyLinked(main_txns[k], c)
        /\ Abs(bank_transactions[c].transaction_date
                 - bank_transactions[main_txns[k]].transaction_date) <= 5
        /\ LinkScore(c, main_txns[k]) > 0}

\* the eligible main with the highest score, the first seen on equal scores
BestEligible(c) ==
    CHOOSE k \in EligibleMains(c) :
        \A j \in EligibleMains(c) :
            \/ LinkScore(c, main_txns[j]) < LinkScore(c, main_txns[k])
            \/ LinkScore(c, main_txns[j]) = LinkScore(c, main_txns[k]) /\ k <= j

PassADone == pc = "select"

\* C23: Pass A links each commission candidate (credit amount in 3.50..4.50)
\* to the main candidate (credit amount > 10) with the highest score among
\* those within 5 days of it and not already linked to it (100 on a reference
\* match, else the name score when >= 80); on equal scores the main seen
\* first wins; a commission with no eligible main gets no link; every link
\* has link_type 'commission' and status 'suggested'
C23_PassALinksBestMain ==
    PassADone =>
        /\ Range(commission_txns) =
              {h \in DOMAIN bank_transactions :
                  /\ bank_transactions[h].reconciliation_status = "unmatched"
                  /\ bank_transactions[h].credit_amount \in 350..450}
        /\ Range(main_txns) =
              {h \in DOMAIN bank_transactions :
                  /\ bank_transactions[h].reconciliation_status = "unmatched"
                  /\ bank_transactions[h].credit_amount > 1000}
        /\ \A k \in DOMAIN tx_links :
              tx_links[k].linked_transaction_hash \in Range(commission_txns)
        /\ \A c \in Range(commission_txns) :
              LET mine == {k \in DOMAIN tx_links :
                              tx_links[k].linked_transaction_hash = c}
              IN  IF EligibleMains(c) = {} THEN mine = {}
                  ELSE /\ Cardinality(mine) = 1
                       /\ \A k \in mine :
                             tx_links[k] = [primary_transaction_hash |->
                                                main_txns[BestEligible(c)],
                                            linked_transaction_hash |-> c,
                                            link_type |-> "commission",
                                            status |-> "suggested"]

\* Pass A passed over a lower-scoring main seen first and chose the earlier
\* of two mains with the same score
C23_Witness ==
    /\ PassADone
    /\ \E c \in Range(commission_txns), i, k, j \in DOMAIN main_txns :
          /\ {i, k, j} \subseteq EligibleMains(c)
          /\ i < k /\ k < j
          /\ LinkScore(c, main_txns[i]) < LinkScore(c, main_txns[k])
          /\ LinkScore(c, main_txns[k]) = LinkScore(c, main_txns[j])
          /\ \E l \in DOMAIN tx_links :
                /\ tx_links[l].linked_transaction_hash = c
                /\ tx_links[l].primary_transaction_hash = main_txns[k]

\* the tolerances of the matching contract: amounts at most 0.99 apart, the
\* bank date from 2 days before to 3 days after the order date
PassesTolerances(bank, order) ==
    /\ bank.credit_amount # NULL /\ order.amount_total_fee # NULL
    /\ bank.transaction_date # NULL /\ order.order_date # NULL
    /\ Abs(bank.credit_amount - order.amount_total_fee) <= 99
    /\ bank.transaction_date - order.order_date \in -2..3

\* does the order qualify for the transaction
Qualifies(h, o) ==
    /\ PassesTolerances(bank_transactions[h], orders[o])
    /\ \/ RefEqualCI(bank_transactions[h].extracted_reference,
                     orders[o].order_bank_reference)
       \/ check_name_match(bank_transactions[h].payer_sender,
                           orders[o].customer_name) > 70

\* the position in order_rows of the order the transaction at position i of
\* bank_txns is to be matched to (0: none), given the transactions before it
RECURSIVE ExpectedOrder(_)
ExpectedOrder(i) ==
    LET claimed == {order_rows[ExpectedOrder(j)] :
                        j \in {x \in 1..(i - 1) : ExpectedOrder(x) # 0}}
        free == {k \in DOMAIN order_rows :
                    /\ order_rows[k] \notin claimed
                    /\ Qualifies(bank_txns[i], order_rows[k])}
    IN  IF free = {} THEN 0 ELSE CHOOSE k \in free : \A j \in free : k <= j

RunDone == pc = "done"

\* C24: each bank transaction, taken in iteration order, is matched to the
\* first order in scan order that is not yet claimed in this run, passes both
\* the amount and the date tolerance, and has either a reference match or a
\* name score strictly greater than 70; an order with name score exactly 70
\* and no reference match is passed over and the scan continues; a
\* transaction with no such order stays 'unmatched'
C24_FirstQualifyingOrder ==
    RunDone =>
        \A i \in DOMAIN bank_txns :
            LET rec == bank_transactions[bank_txns[i]]
            IN  IF ExpectedOrder(i) = 0
                  THEN /\ rec.reconciliation_status = "unmatched"
                       /\ rec.order_id = NULL
                  ELSE /\ rec.reconciliation_status = "suggested_match"
                       /\ rec.order_id = order_rows[ExpectedOrder(i)]

\* a record whose date or amount is missing
IncompleteBank(rec) == rec.transaction_date = NULL \/ rec.credit_amount = NULL
IncompleteOrder(rec) == rec.order_date = NULL \/ rec.amount_total_fee = NULL

\* C25: a bank transaction or order whose date or amount is malformed or
\* missing is never matched or linked and never makes the matching run fail:
\* every comparison that involves it evaluates false and the run goes on to
\* the remaining pairs
C25_MissingValuesNeverMatch ==
    /\ \A h \in DOMAIN bank_transactions :
          IncompleteBank(bank_transactions[h]) =>
              /\ bank_transactions[h].reconciliation_status = "unmatched"
              /\ bank_transactions[h].order_id = NULL
              /\ h \notin DOMAIN tx_bank
              /\ h \notin Linked(tx_links) \cup Linked(transaction_links)
              /\ \A o \in DOMAIN orders : ~Accepts(bank_transactions[h], orders[o])
    /\ \A o \in DOMAIN orders :
          IncompleteOrder(orders[o]) =>
              /\ orders[o].reconciliation_status = "unmatched"
              /\ orders[o].transaction_ids = <<>>
              /\ o \notin DOMAIN tx_orders
              /\ \A h \in DOMAIN bank_transactions :
                    ~Accepts(bank_transactions[h], orders[o])
    /\ RunDone =>
          /\ bank_i > Len(bank_txns)
          /\ \A h \in Range(bank_txns), o \in Range(order_rows) :
                Accepts(bank_transactions[h], orders[o])
                    => (h \in matched_bank_ids \/ o \in matched_order_ids)

\* a completed run that read a transaction and an order with a missing
\* value, passed over that order and matched the transaction after it to the
\* next order
C25_Witness ==
    /\ RunDone
    /\ \E h \in Range(bank_txns) : IncompleteBank(bank_transactions[h])
    /\ \E i, k \in DOMAIN order_rows, h \in matched_bank_ids :
          /\ i < k
          /\ IncompleteOrder(orders[order_rows[i]])
          /\ RefEqualCI(bank_transactions[h].extracted_reference,
                        orders[order_rows[i]].order_bank_reference)
          /\ bank_transactions[h].order_id = order_rows[k]

\* the match columns of a record or of an uncommitted UPDATE
MatchColumns(rec) ==
    [f \in {"match_reference_flag", "match_name_score", "diff_days", "diff_amount"} |->
        rec[f]]

\* the match columns are those of the pair and within the thresholds
RecordsPair(fields, bank, order) ==
    /\ fields.diff_amount = Abs(bank.credit_amount - order.amount_total_fee)
    /\ fields.diff_amount <= 99
    /\ fields.diff_days = Abs(bank.transaction_date - order.order_date)
    /\ fields.diff_days <= 3
    /\ fields.match_name_score \in 0..100
    /\ fields.match_reference_flag \/ fields.match_name_score > 70

\* C26: every record the matching engine sets to 'suggested_match' stores a
\* diff_amount that is the absolute amount difference of its pair and is
\* <= 0.99, a diff_days that is the absolute day difference of its pair and
\* is <= 3, the same match_name_score on both sides, and either
\* match_reference_flag = true or match_name_score > 70
C26_StoredMatchFields ==
    /\ \A h \in DOMAIN tx_bank :
          /\ tx_bank[h].reconciliation_status = "suggested_match"
          /\ tx_bank[h].order_id \in DOMAIN orders
          /\ RecordsPair(tx_bank[h], bank_transactions[h], orders[tx_bank[h].order_id])
    /\ \A o \in DOMAIN tx_orders :
          /\ tx_orders[o].reconciliation_status = "suggested_match"
          /\ Len(tx_orders[o].transaction_ids) = 1
          /\ RecordsPair(tx_orders[o], bank_transactions[tx_orders[o].transaction_ids[1]],
                         orders[o])
          /\ MatchColumns(tx_orders[o])
                = MatchColumns(tx_bank[tx_orders[o].transaction_ids[1]])
    /\ \A h \in DOMAIN bank_transactions :
          bank_transactions[h].reconciliation_status = "suggested_match" =>
              LET o == bank_transactions[h].order_id
              IN  /\ o \in DOMAIN orders
                  /\ RecordsPair(bank_transactions[h], bank_transactions[h], orders[o])
                  /\ orders[o].reconciliation_status = "suggested_match"
                  /\ MatchColumns(orders[o]) = MatchColumns(bank_transactions[h])
    /\ \A o \in DOMAIN orders :
          orders[o].reconciliation_status = "suggested_match" =>
              /\ Len(orders[o].transaction_ids) = 1
              /\ bank_transactions[orders[o].transaction_ids[1]].order_id = o

\* a committed pair matched by name only, the bank date before the order
\* date and the amounts different
C26_Witness ==
    /\ RunDone
    /\ \E h \in matched_bank_ids :
          LET bank == bank_transactions[h]
          IN  /\ bank.reconciliation_status = "suggested_match"
              /\ ~bank.match_reference_flag
              /\ bank.diff_amount > 0
              /\ bank.transaction_date < orders[bank.order_id].order_date

\* the two transactions a link row joins
LinkPair(link) == {link.primary_transaction_hash, link.linked_transaction_hash}

\* C27: after any number of matching runs, the link table holds no two rows
\* for the same pair of transactions in either direction, and a single run
\* adds at most one link per commission transaction
C27_LinksUnique ==
    /\ \A j, k \in DOMAIN transaction_links :
          LinkPair(transaction_links[j]) = LinkPair(transaction_links[k]) => j = k
    /\ \A k \in DOMAIN tx_links :
          /\ \A j \in DOMAIN transaction_links :
                LinkPair(tx_links[k]) # LinkPair(transaction_links[j])
          /\ \A j \in DOMAIN tx_links :
                tx_links[j].linked_transaction_hash = tx_links[k].linked_transaction_hash
                    => j = k

\* a second run has completed whose Pass A had, among its candidates, a
\* commission and a main that the first run had linked
C27_Witness ==
    /\ RunDone
    /\ runs = 2
    /\ \E k \in 1..(Len(transaction_links) - links_count) :
          /\ transaction_links[k].primary_transaction_hash \in Range(main_txns)
          /\ transaction_links[k].linked_transaction_hash \in Range(commission_txns)

\* C28: every link row written by Pass A joins two different transactions:
\* the primary has a credit amount above 10, the linked one a credit amount
\* from 3.50 to 4.50, and both were 'unmatched' when the run read them
C28_LinkEnds ==
    \A k \in DOMAIN tx_links :
        LET primary == tx_links[k].primary_transaction_hash
            linked == tx_links[k].linked_transaction_hash
        IN  /\ primary # linked
            /\ {primary, linked} \subseteq start_unmatched_bank
            /\ bank_transactions[primary].credit_amount > 1000
            /\ bank_transactions[linked].credit_amount >= 350
            /\ bank_transactions[linked].credit_amount <= 450

\* Pass A wrote a link in a store that also holds a transaction of exactly
\* 10.00 or 3.49 and a commission or main that is not 'unmatched'
C28_Witness ==
    /\ pc = "select"
    /\ tx_links # <<>>
    /\ \E h \in DOMAIN bank_transactions :
          bank_transactions[h].credit_amount \in {349, 1000}
    /\ \E h \in DOMAIN bank_transactions :
          /\ bank_transactions[h].reconciliation_status # "unmatched"
          /\ bank_transactions[h].credit_amount \in {400, 15000}

\* the run is between get_connection and its commit, or has raised
RunOpenOrFailed == pc \in {"passA", "select", "scan", "order_update", "failed"}

\* the caller of a run that raised gets the error and nothing of the run's
\* transaction is left pending
C29_ErrorRaised ==
    pc = "failed" =>
        /\ exit_status = 1
        /\ tx_bank = EmptyTable /\ tx_orders = EmptyTable /\ tx_links = <<>>

\* no step of a run other than its commit changes the store
C29_StoreUntouched == RunOpenOrFailed' => storeVars' = storeVars

\* C29: if any step of run_suggestions raises, the store is left exactly as
\* it was before the run (the links inserted by Pass A and the matches
\* written by the order pass are rolled back) and the error is raised to the
\* caller
C29_RaiseRestoresStore ==
    []C29_ErrorRaised /\ [][C29_StoreUntouched]_vars

\* a run raised after Pass A had inserted a link and the order pass had
\* written a match
C29_Witness ==
    /\ pc = "failed"
    /\ links_count > 0
    /\ suggestions_count > 0

\* both runs have committed and no later run has started
BothRunsCommitted ==
    /\ pc = "done"
    /\ runs = 1
    /\ rival.pc = "done"

\* the bank transactions whose order_id names the order
BanksNaming(o) ==
    {h \in DOMAIN bank_transactions :
        /\ bank_transactions[h].reconciliation_status = "suggested_match"
        /\ bank_transactions[h].order_id = o}

\* C30: two matching runs that each read their unmatched sets before the
\* other commits never leave an order matched to two different bank
\* transactions or a bank transaction whose order_id names an order that
\* records a different transaction
C30_ConcurrentRunsConsistent ==
    BothRunsCommitted =>
        \A o \in DOMAIN orders :
            /\ Cardinality(BanksNaming(o)) <= 1
            /\ \A h \in BanksNaming(o) : orders[o].transaction_ids = <<h>>

====
